---------------------------- MODULE Spec2Model ----------------------------
(***************************************************************************)
(* topologyviewer: the NBAPI record list -> Topology resolver              *)
(* (marshall_nbapi_blob, in its main.py and its nbapi.py version), the     *)
(* entity model of easymesh.py, the queries of topology.py and the         *)
(* cross-cycle history of main.py / nbapi_persistent.py.                   *)
(*                                                                         *)
(* Encoding of Python values:                                              *)
(*  - a path "Device.WiFi.DataElements.Network.Device.1." is the sequence  *)
(*    of its dot-separated tokens; every path of the data model ends in a  *)
(*    dot, so str.startswith on paths is the prefix order on sequences;    *)
(*  - a parameters dict is a record with one field per key the code reads  *)
(*    and the set "keys" of the keys that are present;                     *)
(*  - an object reference is the index of the object in the list of the    *)
(*    objects of its class, in creation order; 0 is the {} / None the code *)
(*    initialises a reference with;                                        *)
(*  - the keys the constructors add to a parameters dict (the mirrored     *)
(*    lists, wired, wireless, MediaTypeString) live in P, indexed by the   *)
(*    position of the record in the list, because two objects built from   *)
(*    one record share that dict;                                          *)
(*  - a raised exception is the field err of the resolver state.           *)
(***************************************************************************)
EXTENDS Integers, Sequences, FiniteSets, TLC

VARIABLES
    nbapi_json,              \* main.py: the blob NBAPI_Task.run fetched last
    g_Topology,              \* main.py:461
    g_controller_id,         \* main.py:462
    g_StationsToRadio,       \* main.py:32
    g_RSSI_Measurements,     \* main.py:596
    stations_have_moved,     \* main.py:598
    main_exc,                \* exception the last call in main.py raised, "" if none
    main_fetched,            \* main.py: the blobs handed to marshall_nbapi_blob so far
    nb_json,                 \* nbapi.py: the blob NBAPITask.run fetched last
    nb_topology,             \* nbapi.py:207 NBAPITask.topology
    p_StationsThatHaveMoved, \* nbapi_persistent.py:15
    p_StationsToRadio,       \* nbapi_persistent.py:18
    p_RSSI_Measurements,     \* nbapi_persistent.py:22
    nb_exc,                  \* exception the last call in nbapi.py raised
    heartbeat_count,         \* nbapi.py:204
    nb_fetched,              \* nbapi.py: the blobs handed to marshall_nbapi_blob so far
    last_consumed,           \* last (mac, result) of a moved-station query
    call,                    \* the pure function applied last, its arguments and result
    threads,                 \* the poller threads created so far, in creation order
    nbapi_thread,            \* main.py:838, 0 for None
    topology_obj,            \* identity of the object g_Topology refers to
    allocated,               \* number of Topology objects built so far
    observed,                \* the Topology update_graph read last (main.py:890)
    agent_render_states,     \* render_state.py:25 AgentRenderState.agent_render_states
    render_calls,            \* per agent id: the calls made since add_new_agent entered it
    render_ret               \* what the last get_state returned

vars == <<nbapi_json, g_Topology, g_controller_id, g_StationsToRadio,
          g_RSSI_Measurements, stations_have_moved, main_exc, main_fetched,
          nb_json, nb_topology, p_StationsThatHaveMoved, p_StationsToRadio,
          p_RSSI_Measurements, nb_exc, heartbeat_count, nb_fetched,
          last_consumed, call, threads, nbapi_thread, topology_obj, allocated,
          observed, agent_render_states, render_calls, render_ret>>

main_vars == <<nbapi_json, g_Topology, g_controller_id, g_StationsToRadio,
               g_RSSI_Measurements, stations_have_moved, main_exc, main_fetched>>

task_vars == <<threads, nbapi_thread, topology_obj, allocated, observed>>

render_vars == <<agent_render_states, render_calls, render_ret>>

nb_vars == <<nb_json, nb_topology, p_StationsThatHaveMoved, p_StationsToRadio,
             p_RSSI_Measurements, nb_exc, heartbeat_count, nb_fetched>>

(***************************************************************************)
(* Bounds of the model.                                                    *)
(***************************************************************************)
MaxCycles == 3

(***************************************************************************)
(* Generic helpers.                                                        *)
(***************************************************************************)
RECURSIVE Iter(_, _, _, _)
\* for k in lo..n: st = Body(st, k); a raised exception ends the loop
Iter(Body(_, _), st, k, n) ==
    IF k > n \/ st.err # "" THEN st ELSE Iter(Body, Body(st, k), k + 1, n)

RECURSIVE Fold(_, _, _, _)
\* the same loop over a value that carries no exception
Fold(Body(_, _), acc, k, n) ==
    IF k > n THEN acc ELSE Fold(Body, Body(acc, k), k + 1, n)

\* the next statement of a block: skipped once an exception is raised
Then(Step(_, _), st, i) == IF st.err # "" THEN st ELSE Step(st, i)

\* Python dicts with a dynamic key set
EmptyDict == [k \in {} |-> ""]
EmptyDictOfDict == [k \in {} |-> EmptyDict]
DictPut(d, k, v) == [x \in DOMAIN d \cup {k} |-> IF x = k THEN v ELSE d[x]]
DictDel(d, k) == [x \in DOMAIN d \ {k} |-> d[x]]

\* str.startswith on dot-terminated paths
startswith(path, prefix) ==
    Len(prefix) <= Len(path) /\ SubSeq(path, 1, Len(prefix)) = prefix

\* list.remove(x): drops the first occurrence
RemoveFirst(s, x) ==
    LET i == CHOOSE j \in 1..Len(s) : s[j] = x /\ \A k \in 1..(j - 1) : s[k] # x
    IN  SubSeq(s, 1, i - 1) \o SubSeq(s, i + 1, Len(s))

InSeq(x, s) == \E i \in 1..Len(s) : s[i] = x
Count(x, s) == Cardinality({i \in 1..Len(s) : s[i] = x})

\* Python's order on the strings used as sort keys (code point order)
StrOrder ==
    <<"", "A1", "A2", "A3", "E1", "E2", "E3", "M1", "M2", "M3", "N1", "N2", "R1", "R2",
      "S1", "S2">>
StrRank(s) == CHOOSE i \in 1..Len(StrOrder) : StrOrder[i] = s

\* list.sort(key=...): stable, ascending; Key gives an integer rank
RECURSIVE SortedInsert(_, _, _)
SortedInsert(Key(_), sorted, x) ==
    IF sorted = <<>> THEN <<x>>
    ELSE IF Key(sorted[Len(sorted)]) <= Key(x) THEN Append(sorted, x)
    ELSE Append(SortedInsert(Key, SubSeq(sorted, 1, Len(sorted) - 1), x),
                sorted[Len(sorted)])
StableSort(Key(_), s) ==
    Fold(LAMBDA acc, k : SortedInsert(Key, acc, s[k]), <<>>, 1, Len(s))

(***************************************************************************)
(* Parameters of a record (the "parameters" dict of an NBAPI entry).       *)
(***************************************************************************)
\* a MediaType value: the data model sends an int code or a string name
MT_Int(c) == [isStr |-> FALSE, code |-> c, name |-> ""]
MT_Str(s) == [isStr |-> TRUE, code |-> 0, name |-> s]

NoParams ==
    [keys |-> {}, ControllerID |-> "", ID |-> "", MACAddress |-> "",
     MediaType |-> MT_Int(0), LinkType |-> "", BackhaulMACAddress |-> "",
     BSSID |-> "", SSID |-> "", RSSI |-> 0, SignalStrength |-> 0, RCPI |-> 0,
     DeviceId |-> "", Result |-> ""]

Entry(path, parameters) == [path |-> path, parameters |-> parameters]

\* the keys a constructor adds to the parameters dict it is given
NoExtra ==
    [MediaTypeString |-> "", wired |-> 0, wireless |-> 0, neighbors |-> <<>>,
     children |-> <<>>, STAs |-> <<>>, Radios |-> <<>>, Interfaces |-> <<>>,
     BSS |-> <<>>]

(***************************************************************************)
(* Path patterns: re.search(r"\.Kind\.\d{1,10}\.$", path) and the like.    *)
(***************************************************************************)
DigitTokens == {"1", "2", "3", "4", "5", "6", "7", "8", "9", "10"}

MatchesIndexed(path, kind) ==
    /\ Len(path) >= 3
    /\ path[Len(path) - 1] = kind
    /\ path[Len(path)] \in DigitTokens

MatchesNetwork(path) == Len(path) >= 2 /\ path[Len(path)] = "Network"

MatchesBackhaul(path) ==
    /\ Len(path) >= 3
    /\ path[Len(path) - 1] = "MultiAPDevice"
    /\ path[Len(path)] = "Backhaul"

(***************************************************************************)
(* easymesh.py: the entity model.  st is a record with the object lists    *)
(* agents, ifaces, nbrs, radios, bsses, stas, unassoc, the record list     *)
(* json and the added parameter keys P.                                    *)
(***************************************************************************)
Params(st, rec) == st.json[rec].parameters

\* easymesh.py:29 mediaType_to_str, as the lookup Interface.__init__ makes
mediaType_to_str(mt) ==
    IF mt.isStr
    THEN CASE mt.name = "IEEE_802_3AB_GIGABIT_ETHERNET" -> "Gigabit Ethernet"
           [] mt.name = "IEEE_802_11N_2_4_GHZ" -> "N 2.4 GHz"
           [] mt.name = "IEEE_802_11AX" -> "AC 5 GHz"
           [] OTHER -> "Unknown"
    ELSE CASE mt.code = 0 -> "Fast Ethernet"
           [] mt.code = 256 -> "B 2.4GHz"
           [] mt.code = 257 -> "G 2.4GHz"
           [] mt.code = 258 -> "A 5 GHz"
           [] mt.code = 260 -> "N 5 GHz"
           [] mt.code = 262 -> "AD 60 GHz"
           [] mt.code = 263 -> "AF"
           [] mt.code = 264 -> "AX"
           [] mt.code = 512 -> "IEEE_1901_WAVELET"
           [] mt.code = 513 -> "IEEE_1901_FFT"
           [] mt.code = 768 -> "MOCA_V1_1"
           [] mt.code = 65535 -> "UNKNOWN_MEDIA"
           [] OTHER -> "Unknown"

\* easymesh.py:419 the test that decides wired / wireless
IsWirelessMediaType(mt) ==
    mt.isStr /\ mt.name \in {"IEEE_802_11N_2_4_GHZ", "IEEE_802_11AX"}

\* Agent.__init__
Agent__init__(st, rec) ==
    [st EXCEPT
        !.agents = Append(@, [path |-> st.json[rec].path, rec |-> rec,
                              isController |-> FALSE, radios |-> <<>>,
                              interfaces |-> <<>>, children |-> <<>>,
                              connected_stations |-> <<>>]),
        !.P[rec].Radios = <<>>,
        !.P[rec].Interfaces = <<>>]

\* Agent.get_id
Agent_get_id(st, a) ==
    LET p == Params(st, st.agents[a].rec)
    IN  IF "ID" \in p.keys THEN p.ID ELSE ""

\* Interface.__init__; the new object is the last of st.ifaces
Interface__init__(st, rec) ==
    LET mt == Params(st, rec).MediaType
        wl == IsWirelessMediaType(mt)
    IN  [st EXCEPT
            !.ifaces = Append(@, [path |-> st.json[rec].path, rec |-> rec,
                                  neighbors |-> <<>>, children |-> <<>>,
                                  parentAgent |-> 0,
                                  connected_stations |-> <<>>,
                                  orientation |-> "RIGHT"]),
            !.P[rec].neighbors = <<>>,
            !.P[rec].children = <<>>,
            !.P[rec].STAs = <<>>,
            !.P[rec].MediaTypeString = mediaType_to_str(mt),
            !.P[rec].wired = IF wl THEN 0 ELSE 1,
            !.P[rec].wireless = IF wl THEN 1 ELSE 0]

\* Interface.get_mac
Interface_get_mac(st, i) == Params(st, st.ifaces[i].rec).MACAddress

\* Interface.set_parent_agent
Interface_set_parent_agent(st, i, a) == [st EXCEPT !.ifaces[i].parentAgent = a]

\* Agent.add_interface
Agent_add_interface(st, a, i) ==
    LET s1 == [st EXCEPT !.agents[a].interfaces = Append(@, i),
                         !.P[st.agents[a].rec].Interfaces =
                             Append(@, st.ifaces[i].rec)]
    IN  [s1 EXCEPT !.agents[a].interfaces =
            StableSort(LAMBDA n : s1.P[s1.ifaces[n].rec].wired, @)]

\* Neighbor.__init__
Neighbor__init__(st, rec) ==
    [st EXCEPT !.nbrs = Append(@, [path |-> st.json[rec].path, rec |-> rec])]

\* Interface.add_neighbor
Interface_add_neighbor(st, i, n) ==
    LET irec == st.ifaces[i].rec
    IN  [st EXCEPT
            !.ifaces[i].neighbors =
                StableSort(LAMBDA x : StrRank(Params(st, st.nbrs[x].rec).ID),
                           Append(@, n)),
            !.P[irec].neighbors =
                StableSort(LAMBDA r : StrRank(Params(st, r).ID),
                           Append(@, st.nbrs[n].rec))]

\* the copy in the other direction: the wired side's keys overwrite the
\* wireless side's
CopyClassification_Reversed(P, to, from) ==
    [P EXCEPT ![from].MediaTypeString = P[to].MediaTypeString,
              ![from].wired = P[to].wired,
              ![from].wireless = P[to].wireless]
\* the three keys Interface.add_child copies from one dict to the other
CopyClassification(P, to, from) ==
    [P EXCEPT ![to].MediaTypeString = P[from].MediaTypeString,
              ![to].wired = P[from].wired,
              ![to].wireless = P[from].wireless]

\* Interface.add_child (self = parent, interface = child)
Interface_add_child(st, parent, child) ==
    LET prec == st.ifaces[parent].rec
        crec == st.ifaces[child].rec
        P1 == IF st.P[prec].wireless = 1 /\ st.P[crec].wireless = 0
              THEN CopyClassification(st.P, crec, prec)
              ELSE IF st.P[crec].wireless = 1 /\ st.P[prec].wireless = 0
              THEN CopyClassification(st.P, prec, crec)
              ELSE st.P
    IN  [st EXCEPT
            !.P = [P1 EXCEPT ![prec].children =
                      StableSort(LAMBDA r : StrRank(Params(st, r).MACAddress),
                                 Append(@, crec))],
            !.ifaces[parent].children =
                StableSort(LAMBDA x : StrRank(Interface_get_mac(st, x)),
                           Append(@, child))]

\* Interface.is_child
Interface_is_child(st, i, macAddress) ==
    \E k \in 1..Len(st.ifaces[i].children) :
        Params(st, st.ifaces[st.ifaces[i].children[k]].rec).MACAddress = macAddress

\* Interface.has_child_iface
Interface_has_child_iface(st, i, mac) ==
    \E k \in 1..Len(st.ifaces[i].children) :
        Interface_get_mac(st, st.ifaces[i].children[k]) = mac

\* Interface.get_interface_number: the last character before the final dot
Interface_get_interface_number(st, i) ==
    LET tok == st.ifaces[i].path[Len(st.ifaces[i].path)]
    IN  IF tok = "10" THEN "0" ELSE tok

\* Agent.add_child
Agent_add_child(st, a, child) ==
    [st EXCEPT !.agents[a].children =
        StableSort(LAMBDA n : StrRank(Agent_get_id(st, n)), Append(@, child))]

\* Agent.is_child
Agent_is_child(st, a, macAddress) ==
    \E k \in 1..Len(st.agents[a].interfaces) :
        Interface_is_child(st, st.agents[a].interfaces[k], macAddress)

\* Agent.add_connected_station
Agent_add_connected_station(st, a, s) ==
    [st EXCEPT !.agents[a].connected_stations = Append(@, s)]

\* Interface.add_connected_station
Interface_add_connected_station(st, i, s) ==
    LET s1 == Agent_add_connected_station(st, st.ifaces[i].parentAgent, s)
    IN  [s1 EXCEPT !.ifaces[i].connected_stations = Append(@, s),
                   !.P[st.ifaces[i].rec].STAs = Append(@, st.stas[s].rec)]

\* Station.__init__
Station__init__(st, rec) ==
    [st EXCEPT !.stas = Append(@, [path |-> st.json[rec].path, rec |-> rec,
                                   is_steered |-> FALSE])]

\* Station.get_mac
Station_get_mac(st, s) ==
    LET p == Params(st, st.stas[s].rec)
    IN  IF "MACAddress" \in p.keys THEN p.MACAddress ELSE ""

\* Station.get_rssi
Station_get_rssi(st, s) ==
    LET p == Params(st, st.stas[s].rec)
    IN  IF "RSSI" \in p.keys THEN p.RSSI
        ELSE IF "SignalStrength" \in p.keys THEN p.SignalStrength
        ELSE IF "RCPI" \in p.keys THEN p.RCPI
        ELSE -127

\* Station.set_steered
Station_set_steered(st, s, steered) == [st EXCEPT !.stas[s].is_steered = steered]

\* BSS.__init__
BSS__init__(st, rec) ==
    [st EXCEPT !.bsses = Append(@, [path |-> st.json[rec].path, rec |-> rec,
                                    interface |-> 0,
                                    connected_stations |-> <<>>]),
               !.P[rec].STAs = <<>>]

\* BSS.add_connected_station
BSS_add_connected_station(st, b, s) ==
    [st EXCEPT !.bsses[b].connected_stations = Append(@, s),
               !.P[st.bsses[b].rec].STAs = Append(@, st.stas[s].rec)]

\* BSS.get_bssid
BSS_get_bssid(st, b) ==
    LET p == Params(st, st.bsses[b].rec)
    IN  IF "BSSID" \in p.keys THEN p.BSSID ELSE ""

\* Radio.__init__
Radio__init__(st, rec) ==
    [st EXCEPT !.radios = Append(@, [path |-> st.json[rec].path, rec |-> rec,
                                     bsses |-> <<>>,
                                     unassociated_stations |-> <<>>]),
               !.P[rec].BSS = <<>>]

\* Radio.add_bss
Radio_add_bss(st, r, b) ==
    [st EXCEPT !.radios[r].bsses = Append(@, b),
               !.P[st.radios[r].rec].BSS = Append(@, st.bsses[b].rec)]

\* Radio.get_ruid
Radio_get_ruid(st, r) ==
    LET p == Params(st, st.radios[r].rec)
    IN  IF "ID" \in p.keys THEN p.ID ELSE ""

\* Agent.add_radio
Agent_add_radio(st, a, r) ==
    [st EXCEPT !.agents[a].radios = Append(@, r),
               !.P[st.agents[a].rec].Radios = Append(@, st.radios[r].rec)]

\* UnassociatedStation.__init__ and set_parent_radio
UnassociatedStation__init__(st, rec) ==
    [st EXCEPT !.unassoc = Append(@, [path |-> st.json[rec].path, rec |-> rec,
                                      parent_radio |-> 0])]
UnassociatedStation_set_parent_radio(st, u, r) ==
    [st EXCEPT !.unassoc[u].parent_radio = r]
UnassociatedStation_get_mac(st, u) ==
    LET p == Params(st, st.unassoc[u].rec)
    IN  IF "MACAddress" \in p.keys THEN p.MACAddress ELSE ""

(***************************************************************************)
(* topology.py.  A Topology is the object graph it was built from, the     *)
(* list agent_list of the agents handed to the constructor (references     *)
(* into agents), controller_id and controller (0: the {} of line 51).      *)
(***************************************************************************)
EmptyGraph(json) ==
    [json |-> json, agents |-> <<>>, ifaces |-> <<>>, nbrs |-> <<>>,
     radios |-> <<>>, bsses |-> <<>>, stas |-> <<>>, unassoc |-> <<>>,
     P |-> [i \in 1..Len(json) |-> NoExtra], agent_list |-> <<>>]

\* Topology.__init__ leaving the loop of lines 54-57 at the first agent
\* whose id equals controller_id
Topology__init__FirstOnly(g, controller_id) ==
    LET n == Len(g.agent_list)
        hit == {k \in 1..n : Agent_get_id(g, g.agent_list[k]) = controller_id}
        first == {k \in hit : \A j \in hit : k <= j}
        flagged == {g.agent_list[k] : k \in first}
    IN  [json |-> g.json,
         agents |-> [a \in 1..Len(g.agents) |->
                        IF a \in flagged
                        THEN [g.agents[a] EXCEPT !.isController = TRUE]
                        ELSE g.agents[a]],
         ifaces |-> g.ifaces, nbrs |-> g.nbrs, radios |-> g.radios,
         bsses |-> g.bsses, stas |-> g.stas, unassoc |-> g.unassoc, P |-> g.P,
         agent_list |-> g.agent_list,
         controller_id |-> controller_id,
         controller |-> IF hit = {} THEN 0
                        ELSE g.agent_list[CHOOSE k \in first : TRUE]]
\* Topology.__init__(agents, controller_id): every listed agent whose id
\* equals controller_id is flagged, the last of them is self.controller
Topology__init__(g, controller_id) ==
    LET n == Len(g.agent_list)
        hit == {k \in 1..n : Agent_get_id(g, g.agent_list[k]) = controller_id}
        flagged == {g.agent_list[k] : k \in hit}
    IN  [json |-> g.json,
         agents |-> [a \in 1..Len(g.agents) |->
                        IF a \in flagged
                        THEN [g.agents[a] EXCEPT !.isController = TRUE]
                        ELSE g.agents[a]],
         ifaces |-> g.ifaces, nbrs |-> g.nbrs, radios |-> g.radios,
         bsses |-> g.bsses, stas |-> g.stas, unassoc |-> g.unassoc, P |-> g.P,
         agent_list |-> g.agent_list,
         controller_id |-> controller_id,
         controller |-> IF hit = {} THEN 0
                        ELSE g.agent_list[CHOOSE k \in hit : \A j \in hit : j <= k]]

\* the {} main.py and nbapi.py pass as controller_id for a blob that is no list
DictAsControllerId == "{}"

\* Topology.get_controller: None (0) when self.controller is falsy
Topology_get_controller(t) == t.controller

\* the (agent, radio, bss, station) positions the nested loops of
\* topology.py visit, in visiting order
RECURSIVE FlattenSeq(_)
FlattenSeq(ss) == IF ss = <<>> THEN <<>> ELSE ss[1] \o FlattenSeq(Tail(ss))

StationVisits(t) ==
    FlattenSeq([ai \in 1..Len(t.agent_list) |->
      LET a == t.agent_list[ai] IN
      FlattenSeq([ri \in 1..Len(t.agents[a].radios) |->
        LET r == t.agents[a].radios[ri] IN
        FlattenSeq([bi \in 1..Len(t.radios[r].bsses) |->
          LET b == t.radios[r].bsses[bi] IN
          [si \in 1..Len(t.bsses[b].connected_stations) |->
             [agent |-> a, radio |-> r, bss |-> b,
              sta |-> t.bsses[b].connected_stations[si]]]])])])

\* Topology.get_connections
Topology_get_connections(t) ==
    LET v == StationVisits(t)
    IN  [k \in 1..Len(v) |-> <<BSS_get_bssid(t, v[k].bss), Station_get_mac(t, v[k].sta)>>]

\* Topology.get_num_connections_total
Topology_get_num_connections_total(t) == Len(Topology_get_connections(t))

\* Topology.get_num_stations_total
Topology_get_num_stations_total(t) ==
    LET bs == FlattenSeq([ai \in 1..Len(t.agent_list) |->
                 LET a == t.agent_list[ai] IN
                 FlattenSeq([ri \in 1..Len(t.agents[a].radios) |->
                     t.radios[t.agents[a].radios[ri]].bsses])])
    IN  Fold(LAMBDA acc, k : acc + Len(t.bsses[bs[k]].connected_stations),
             0, 1, Len(bs))

\* Topology.get_ruid_from_sta
Topology_get_ruid_from_sta(t, sta) ==
    LET v == StationVisits(t)
        hits == {k \in 1..Len(v) : Station_get_mac(t, v[k].sta) = sta}
    IN  IF hits = {} THEN ""
        ELSE Radio_get_ruid(t, v[CHOOSE k \in hits : \A j \in hits : k <= j].radio)

\* Topology.validate_vbss_move_request
Topology_validate_vbss_move_request(t, station_mac, target_ruid) ==
    ~(Topology_get_ruid_from_sta(t, station_mac) = target_ruid)

(***************************************************************************)
(* The resolver state: the object graph under construction, the locals of  *)
(* marshall_nbapi_blob and the history the call reads and writes.          *)
(*   interface_list          main.py interface_list / nbapi.py iface_dict  *)
(*   cbi, cagent             controller_backhaul_interface, controller_agent*)
(*   s2r, moved, rssi        station -> radio map, moved list, RSSI series *)
(*   err                     the exception raised, "" while none           *)
(***************************************************************************)
Unbound == "<unbound>"

ResolverState(json, controller_id, s2r, moved, rssi) ==
    [json |-> json, agents |-> <<>>, ifaces |-> <<>>, nbrs |-> <<>>,
     radios |-> <<>>, bsses |-> <<>>, stas |-> <<>>, unassoc |-> <<>>,
     P |-> [i \in 1..Len(json) |-> NoExtra], agent_list |-> <<>>,
     interface_list |-> <<>>, cbi |-> 0, cagent |-> 0,
     controller_id |-> controller_id,
     s2r |-> s2r, moved |-> moved, rssi |-> rssi, err |-> ""]

Raise(st, exc) == [st EXCEPT !.err = exc]

\* interface.params['MediaType'] <= 1: a str operand raises TypeError
MediaTypeLE1(mt) == IF mt.isStr THEN "TypeError" ELSE IF mt.code <= 1 THEN "yes" ELSE "no"

\* main.py:622-626 / nbapi.py:44-45
FindController(st, i) ==
    IF MatchesNetwork(st.json[i].path)
    THEN [st EXCEPT !.controller_id = Params(st, i).ControllerID]
    ELSE st

\* main.py:631-632: agent_list.append(Agent(path, params))
main_BuildAgent(st, i) ==
    IF MatchesIndexed(st.json[i].path, "Device")
    THEN LET s1 == Agent__init__(st, i)
         IN  [s1 EXCEPT !.agent_list = Append(@, Len(s1.agents))]
    ELSE st

\* main.py:641-644 / nbapi.py:56-58: the interface of record i on agent a
AttachInterface(st, i, a) ==
    LET s1 == Interface__init__(st, i)
        k == Len(s1.ifaces)
    IN  Agent_add_interface(Interface_set_parent_agent(s1, k, a), a, k)

\* main.py:638-644
main_GetInterfaces(st, i) ==
    IF MatchesIndexed(st.json[i].path, "Interface")
    THEN Iter(LAMBDA s, ai :
                LET a == s.agent_list[ai]
                IN  IF startswith(s.json[i].path, s.agents[a].path)
                    THEN LET s1 == AttachInterface(s, i, a)
                         IN  [s1 EXCEPT !.interface_list = Append(@, Len(s1.ifaces))]
                    ELSE s,
              st, 1, Len(st.agent_list))
    ELSE st

\* main.py:657-660 / nbapi.py:71-74: mark the controller's backhaul interface
MarkBackhaulOnNeighbor(st, a, iface) ==
    IF st.controller_id = Unbound THEN Raise(st, "UnboundLocalError")
    ELSE IF Agent_get_id(st, a) # st.controller_id THEN st
    ELSE LET le == MediaTypeLE1(Params(st, st.ifaces[iface].rec).MediaType)
         IN  IF le = "TypeError" THEN Raise(st, "TypeError")
             ELSE IF le = "yes"
             THEN [st EXCEPT !.cbi = iface,
                             !.ifaces[iface].orientation = "DOWN",
                             !.cagent = a]
             ELSE st

\* main.py:650-660 / nbapi.py:64-74
GetNeighbors(st, i) ==
    IF MatchesIndexed(st.json[i].path, "Neighbor")
    THEN Iter(LAMBDA s, ai :
                LET a == s.agent_list[ai]
                IN  Iter(LAMBDA s2, ii :
                           LET iface == s2.agents[a].interfaces[ii]
                           IN  IF startswith(s2.json[i].path, s2.ifaces[iface].path)
                               THEN LET s3 == Neighbor__init__(s2, i)
                                        s4 == Interface_add_neighbor(s3, iface, Len(s3.nbrs))
                                    IN  MarkBackhaulOnNeighbor(s4, a, iface)
                               ELSE s2,
                         s, 1, Len(s.agents[a].interfaces)),
              st, 1, Len(st.agent_list))
    ELSE st

\* main.py:667-671 / nbapi.py:81-85: the first interface with MediaType <= 1
FirstEthernet(st, a) ==
    LET ifs == st.agents[a].interfaces
        stop == {k \in 1..Len(ifs) :
                    MediaTypeLE1(Params(st, st.ifaces[ifs[k]].rec).MediaType) # "no"}
    IN  IF stop = {} THEN st
        ELSE LET k == CHOOSE x \in stop : \A y \in stop : x <= y
                 iface == ifs[k]
             IN  IF Params(st, st.ifaces[iface].rec).MediaType.isStr
                 THEN Raise(st, "TypeError")
                 ELSE [st EXCEPT !.cbi = iface,
                                 !.ifaces[iface].orientation = "DOWN"]

\* main.py:663-671 / nbapi.py:77-85
FallbackBackhaul(st) ==
    IF st.cbi # 0 THEN st
    ELSE Iter(LAMBDA s, ai :
                LET a == s.agent_list[ai]
                IN  IF s.controller_id = Unbound THEN Raise(s, "UnboundLocalError")
                    ELSE IF Agent_get_id(s, a) = s.controller_id
                    THEN FirstEthernet([s EXCEPT !.cagent = a], a)
                    ELSE s,
              st, 1, Len(st.agent_list))

\* main.py:691-699 / nbapi.py:111-119: a Wi-Fi backhaul link
LinkWiFi(st, i) ==
    Iter(LAMBDA s, ci :
           LET child == s.interface_list[ci]
           IN  IF Interface_get_mac(s, child) # Params(s, i).MACAddress THEN s
               ELSE LET ps == {pi \in 1..Len(s.interface_list) :
                                  Interface_get_mac(s, s.interface_list[pi]) =
                                      Params(s, i).BackhaulMACAddress}
                    IN  IF ps = {} THEN s
                        ELSE LET parent == s.interface_list[CHOOSE x \in ps : \A y \in ps : x <= y]
                                 s1 == Interface_add_child(s, parent, child)
                                 s2 == [s1 EXCEPT !.ifaces[parent].orientation = "DOWN"]
                                 s3 == [s2 EXCEPT !.ifaces[child].orientation = "UP"]
                             IN  Agent_add_child(s3, s3.ifaces[parent].parentAgent,
                                                 s3.ifaces[child].parentAgent),
         st, 1, Len(st.interface_list))

\* main.py:683-687: an Ethernet backhaul link
main_LinkEthernet(st, i) ==
    Iter(LAMBDA s, k :
           LET iface == s.interface_list[k]
           IN  IF Interface_get_mac(s, iface) # Params(s, i).MACAddress THEN s
               ELSE IF s.cbi = 0 THEN Raise(s, "AttributeError")
               ELSE LET s1 == Interface_add_child(s, s.cbi, iface)
                        s2 == [s1 EXCEPT !.ifaces[iface].orientation = "UP"]
                    IN  Agent_add_child(s2, s2.cagent, s2.ifaces[iface].parentAgent),
         st, 1, Len(st.interface_list))

\* main.py:676-699
main_LinkInterfaces(st, i) ==
    IF ~MatchesBackhaul(st.json[i].path) THEN st
    ELSE CASE Params(st, i).LinkType = "None" -> st
           [] Params(st, i).LinkType = "Ethernet" -> main_LinkEthernet(st, i)
           [] Params(st, i).LinkType = "Wi-Fi" -> LinkWiFi(st, i)
           [] OTHER -> st

\* main.py:703-706 / nbapi.py:122-125
GetRadios(st, i) ==
    IF MatchesIndexed(st.json[i].path, "Radio")
    THEN Iter(LAMBDA s, ai :
                LET a == s.agent_list[ai]
                IN  IF startswith(s.json[i].path, s.agents[a].path)
                    THEN LET s1 == Radio__init__(s, i)
                         IN  Agent_add_radio(s1, a, Len(s1.radios))
                    ELSE s,
              st, 1, Len(st.agent_list))
    ELSE st

\* main.py:716-719 / nbapi.py:134-137: the first interface whose MAC is the radio's ID
CorrelateInterface(st, r) ==
    LET hits == {k \in 1..Len(st.interface_list) :
                    Params(st, st.radios[r].rec).ID =
                        Interface_get_mac(st, st.interface_list[k])}
    IN  IF hits = {} THEN 0
        ELSE st.interface_list[CHOOSE x \in hits : \A y \in hits : x <= y]

\* main.py:710-719 / nbapi.py:128-137
CollectBSS(st, i) ==
    IF MatchesIndexed(st.json[i].path, "BSS")
    THEN Iter(LAMBDA s, ai :
                LET a == s.agent_list[ai]
                IN  Iter(LAMBDA s2, ri :
                           LET r == s2.agents[a].radios[ri]
                           IN  IF startswith(s2.json[i].path, s2.radios[r].path)
                               THEN LET s3 == BSS__init__(s2, i)
                                        b == Len(s3.bsses)
                                        s4 == Radio_add_bss(s3, r, b)
                                        f == CorrelateInterface(s4, r)
                                    IN  IF f = 0 THEN s4
                                        ELSE [s4 EXCEPT !.bsses[b].interface = f]
                               ELSE s2,
                         s, 1, Len(s.agents[a].radios)),
              st, 1, Len(st.agent_list))
    ELSE st

(***************************************************************************)
(* nbapi_persistent.py: the history the nbapi.py resolver keeps.           *)
(***************************************************************************)
\* handle_station_has_moved
handle_station_has_moved(st, sta_mac, ruid) ==
    [st EXCEPT !.moved = Append(@, sta_mac),
               !.s2r = IF sta_mac \in DOMAIN @ THEN DictDel(@, sta_mac) ELSE @]

\* station_has_undergone_move with the comparison of line 69 turned around
station_has_undergone_move_SameRadio(st, sta_mac, ruid) ==
    sta_mac \in DOMAIN st.s2r /\ st.s2r[sta_mac] = ruid
\* station_has_undergone_move
station_has_undergone_move(st, sta_mac, ruid) ==
    sta_mac \in DOMAIN st.s2r /\ st.s2r[sta_mac] # ruid

\* a registration that leaves the map as it is
register_station_to_radio_Never(st, sta_mac, ruid) == st
\* register_station_to_radio
register_station_to_radio(st, sta_mac, ruid) ==
    [st EXCEPT !.s2r = DictPut(@, sta_mac, ruid)]

\* a bookkeeping that keeps the latest measurement only
add_new_signal_strength_measurement_LatestOnly(st, sta_mac, ruid, rssi) ==
    LET m1 == IF ruid \in DOMAIN st.rssi THEN st.rssi
              ELSE DictPut(st.rssi, ruid, EmptyDict)
    IN  [st EXCEPT !.rssi = DictPut(m1, ruid, DictPut(m1[ruid], sta_mac, <<rssi>>))]
\* nbapi_persistent.py:80-92 add_new_signal_strength_measurement
add_new_signal_strength_measurement(st, sta_mac, ruid, rssi) ==
    LET m1 == IF ruid \in DOMAIN st.rssi THEN st.rssi
              ELSE DictPut(st.rssi, ruid, EmptyDict)
        m2 == IF sta_mac \in DOMAIN m1[ruid] THEN m1
              ELSE DictPut(m1, ruid, DictPut(m1[ruid], sta_mac, <<>>))
    IN  [st EXCEPT !.rssi =
            DictPut(m2, ruid, DictPut(m2[ruid], sta_mac, Append(m2[ruid][sta_mac], rssi)))]

\* nbapi.py:149-151
nbapi_TrackStation(st, sta_mac, ruid) ==
    register_station_to_radio(
        IF station_has_undergone_move(st, sta_mac, ruid)
        THEN handle_station_has_moved(st, sta_mac, ruid)
        ELSE st,
        sta_mac, ruid)

(***************************************************************************)
(* main.py: the same history, kept in the globals of main.py.              *)
(***************************************************************************)
\* main.py:599-601 handle_station_moved
handle_station_moved(st, sta_mac) == [st EXCEPT !.moved = Append(@, sta_mac)]

\* main.py:735-738
main_TrackStation(st, sta_mac, ruid) ==
    LET s1 == IF sta_mac \in DOMAIN st.s2r /\ st.s2r[sta_mac] # ruid
              THEN [handle_station_moved(st, sta_mac) EXCEPT
                        !.s2r = DictDel(@, sta_mac)]
              ELSE st
    IN  [s1 EXCEPT !.s2r = DictPut(@, sta_mac, ruid)]

\* main.py:744-750 and 766-772: the RSSI bookkeeping of main.py
main_AppendRSSI(st, sta_mac, ruid, rssi) ==
    IF ruid \notin DOMAIN st.rssi
    THEN [st EXCEPT !.rssi = DictPut(@, ruid, EmptyDict)]
    ELSE IF sta_mac \notin DOMAIN st.rssi[ruid]
    THEN [st EXCEPT !.rssi = DictPut(@, ruid, DictPut(@[ruid], sta_mac, <<>>))]
    ELSE [st EXCEPT !.rssi =
            DictPut(@, ruid, DictPut(@[ruid], sta_mac, Append(@[ruid][sta_mac], rssi)))]

(***************************************************************************)
(* The station, steering and unassociated-station steps; Track and         *)
(* AppendRSSI are the history operations of the module that runs them.     *)
(***************************************************************************)
\* main.py:732-750 / nbapi.py:146-157: one STA record placed under BSS b of radio r
PlaceStation(Track(_, _, _), AppendRSSI(_, _, _, _), st, i, r, b) ==
    LET s1 == Station__init__(st, i)
        sta == Len(s1.stas)
        mac == Station_get_mac(s1, sta)
        ruid == Radio_get_ruid(s1, r)
        s2 == Track(BSS_add_connected_station(s1, b, sta), mac, ruid)
        iface == s2.bsses[b].interface
    IN  IF iface = 0 THEN Raise(s2, "AttributeError")
        ELSE LET s3 == [s2 EXCEPT !.ifaces[iface].orientation = "DOWN"]
                 s4 == IF ~Agent_is_child(s3, s3.ifaces[iface].parentAgent, mac)
                       THEN Interface_add_connected_station(s3, iface, sta)
                       ELSE s3
             IN  AppendRSSI(s4, mac, ruid, Station_get_rssi(s4, sta))

\* main.py:727-750 / nbapi.py:141-157
MapStations(Track(_, _, _), AppendRSSI(_, _, _, _), st, i) ==
    IF MatchesIndexed(st.json[i].path, "STA")
    THEN Iter(LAMBDA s, ai :
           LET a == s.agent_list[ai] IN
           Iter(LAMBDA s2, ri :
              LET r == s2.agents[a].radios[ri] IN
              Iter(LAMBDA s3, bi :
                     LET b == s3.radios[r].bsses[bi]
                     IN  IF startswith(s3.json[i].path, s3.bsses[b].path)
                         THEN PlaceStation(Track, AppendRSSI, s3, i, r, b)
                         ELSE s3,
                   s2, 1, Len(s2.radios[r].bsses)),
              s, 1, Len(s.agents[a].radios)),
           st, 1, Len(st.agent_list))
    ELSE st

\* main.py:754-757 / nbapi.py:160-163; station_list is stas[first..]
SteerEvents(st, i, first) ==
    IF MatchesIndexed(st.json[i].path, "SteerEvent")
    THEN Iter(LAMBDA s, k :
                IF /\ Params(s, s.stas[k].rec).MACAddress = Params(s, i).DeviceId
                   /\ Params(s, i).Result = "Success"
                THEN Station_set_steered(s, k, TRUE)
                ELSE s,
              st, first, Len(st.stas))
    ELSE st

\* main.py:760-772 / nbapi.py:165-171
UnassociatedStations(AppendRSSI(_, _, _, _), st, i) ==
    IF MatchesIndexed(st.json[i].path, "UnassociatedSTA")
    THEN Iter(LAMBDA s, ai :
           LET a == s.agent_list[ai] IN
           Iter(LAMBDA s2, ri :
                  LET r == s2.agents[a].radios[ri]
                  IN  IF startswith(s2.json[i].path, s2.radios[r].path)
                      THEN LET s3 == UnassociatedStation__init__(s2, i)
                               u == Len(s3.unassoc)
                               s4 == UnassociatedStation_set_parent_radio(s3, u, r)
                           IN  AppendRSSI(s4, UnassociatedStation_get_mac(s4, u),
                                          Radio_get_ruid(s4, r),
                                          Params(s4, i).SignalStrength)
                      ELSE s2,
                s, 1, Len(s.agents[a].radios)),
           st, 1, Len(st.agent_list))
    ELSE st

\* main.py:725-750 and 759-772
main_MapStations(st, i) == MapStations(main_TrackStation, main_AppendRSSI, st, i)
main_UnassociatedStations(st, i) == UnassociatedStations(main_AppendRSSI, st, i)

\* nbapi.py:141-157 and 165-171
nbapi_MapStations(st, i) ==
    MapStations(nbapi_TrackStation, add_new_signal_strength_measurement, st, i)
nbapi_UnassociatedStations(st, i) ==
    UnassociatedStations(add_new_signal_strength_measurement, st, i)

(***************************************************************************)
(* A JSON value as the resolver sees it: its Python type and, for a list,  *)
(* its entries.                                                            *)
(***************************************************************************)
JsonList(items) == [type |-> "list", items |-> items]
JsonOther(type) == [type |-> type, items |-> <<>>]

\* what a call leaves behind: the Topology returned (when err = ""), the
\* exception raised, and the history and globals as the call left them
Outcome(st, topology) ==
    [topology |-> topology, err |-> st.err, controller_id |-> st.controller_id,
     s2r |-> st.s2r, moved |-> st.moved, rssi |-> st.rssi]

GraphOf(st) ==
    [json |-> st.json, agents |-> st.agents, ifaces |-> st.ifaces,
     nbrs |-> st.nbrs, radios |-> st.radios, bsses |-> st.bsses,
     stas |-> st.stas, unassoc |-> st.unassoc, P |-> st.P,
     agent_list |-> st.agent_list]

NoTopology == Topology__init__(EmptyGraph(<<>>), DictAsControllerId)

\* for e in nbapi_json: st = Step(st, position of e)
ForEachEntry(Step(_, _), st) == Iter(Step, st, 1, Len(st.json))

(***************************************************************************)
(* main.py:603-798 marshall_nbapi_blob: one pass over the list per step.   *)
(***************************************************************************)
\* main.py:754-757 over the station_list of the whole call
main_SteerEvents(st, i) == SteerEvents(st, i, 1)

\* the passes of main.py, the first innermost: 623 controller, 630 agents,
\* 637 interfaces, 649 neighbors, 663 fallback, 675 backhaul links,
\* 702 radios, 709 BSS, 726 STA, 753 steer events, 759 unassociated stations
main_Passes(st) ==
    ForEachEntry(main_UnassociatedStations,
      ForEachEntry(main_SteerEvents,
        ForEachEntry(main_MapStations,
          ForEachEntry(CollectBSS,
            ForEachEntry(GetRadios,
              ForEachEntry(main_LinkInterfaces,
                FallbackBackhaul(
                  ForEachEntry(GetNeighbors,
                    ForEachEntry(main_GetInterfaces,
                      ForEachEntry(main_BuildAgent,
                        ForEachEntry(FindController, st)))))))))))

\* main.py:798 / nbapi.py:173: return Topology(agent_list, controller_id),
\* or the exception that ended the call
ReturnTopology(st) ==
    IF st.err # "" THEN Outcome(st, NoTopology)
    ELSE Outcome(st, Topology__init__(GraphOf(st), st.controller_id))

\* main.py:617-618 / nbapi.py:34-35: a blob that is no list gives Topology({}, {})
ReturnEmptyTopology(st) ==
    Outcome(st, Topology__init__(EmptyGraph(<<>>), DictAsControllerId))

\* the resolver without the type check of main.py:617: the first pass
\* raises TypeError on a blob that is no list
main_marshall_nbapi_blob_NoListCheck(blob, controller_id, s2r, moved, rssi) ==
    IF blob.type # "list"
    THEN ReturnTopology(Raise(ResolverState(blob.items, controller_id, s2r, moved, rssi),
                              "TypeError"))
    ELSE ReturnTopology(main_Passes(
             ResolverState(blob.items, controller_id, s2r, moved, rssi)))
main_marshall_nbapi_blob(blob, controller_id, s2r, moved, rssi) ==
    IF blob.type # "list"
    THEN ReturnEmptyTopology(ResolverState(blob.items, controller_id, s2r, moved, rssi))
    ELSE ReturnTopology(main_Passes(
             ResolverState(blob.items, controller_id, s2r, moved, rssi)))

(***************************************************************************)
(* nbapi.py:20-173 marshall_nbapi_blob: every step inside one loop over    *)
(* the list, agent_dict and iface_dict keyed by path.                      *)
(***************************************************************************)
\* d[path] = obj on a dict whose values are kept as the list refs: a key
\* already present keeps its place
DictSetByPath(refs, paths, path, obj) ==
    LET hit == {k \in 1..Len(refs) : paths[refs[k]].path = path}
    IN  IF hit = {} THEN Append(refs, obj)
        ELSE [refs EXCEPT ![CHOOSE k \in hit : TRUE] = obj]

\* nbapi.py:48-49
nbapi_BuildAgent(st, i) ==
    IF MatchesIndexed(st.json[i].path, "Device")
    THEN LET s1 == Agent__init__(st, i)
         IN  [s1 EXCEPT !.agent_list =
                 DictSetByPath(@, s1.agents, s1.json[i].path, Len(s1.agents))]
    ELSE st

\* nbapi.py:53-59
nbapi_GetInterfaces(st, i) ==
    IF MatchesIndexed(st.json[i].path, "Interface")
    THEN Iter(LAMBDA s, ai :
                LET a == s.agent_list[ai]
                IN  IF startswith(s.json[i].path, s.agents[a].path)
                    THEN LET s1 == AttachInterface(s, i, a)
                         IN  [s1 EXCEPT !.interface_list =
                                 DictSetByPath(@, s1.ifaces, s1.json[i].path,
                                               Len(s1.ifaces))]
                    ELSE s,
              st, 1, Len(st.agent_list))
    ELSE st

\* nbapi.py:96-107: an Ethernet backhaul link
nbapi_LinkEthernet(st, i) ==
    Iter(LAMBDA s, k :
           LET iface == s.interface_list[k]
           IN  IF Interface_get_interface_number(s, iface) # "1" THEN s
               ELSE IF s.cbi = 0 THEN s
               ELSE IF Interface_get_mac(s, iface) = Interface_get_mac(s, s.cbi) THEN s
               ELSE IF Interface_has_child_iface(s, s.cbi, Interface_get_mac(s, iface)) THEN s
               ELSE LET s1 == Interface_add_child(s, s.cbi, iface)
                        s2 == [s1 EXCEPT !.ifaces[iface].orientation = "UP"]
                    IN  Agent_add_child(s2, s2.cagent, s2.ifaces[iface].parentAgent),
         st, 1, Len(st.interface_list))

\* nbapi.py:89-119
nbapi_LinkInterfaces(st, i) ==
    IF ~MatchesBackhaul(st.json[i].path) THEN st
    ELSE CASE Params(st, i).LinkType = "Ethernet" -> nbapi_LinkEthernet(st, i)
           [] Params(st, i).LinkType = "Wi-Fi" -> LinkWiFi(st, i)
           [] OTHER -> st

\* nbapi.py:63-85: controller_backhaul_interface = {} and controller_agent = {},
\* then the neighbor step and the fallback
nbapi_Backhaul(st, i) ==
    FallbackBackhaul(GetNeighbors([st EXCEPT !.cbi = 0, !.cagent = 0], i))

\* nbapi.py:140-163: station_list = [] filled from the STA record, then the
\* steer events over that list
nbapi_Stations(st, i) ==
    Then(LAMBDA s, k : SteerEvents(s, k, Len(st.stas) + 1),
         nbapi_MapStations(st, i), i)

\* nbapi.py:40-171: the body of the loop for the entry at position i,
\* innermost first
nbapi_Entry(st, i) ==
    Then(nbapi_UnassociatedStations,
      Then(nbapi_Stations,
        Then(CollectBSS,
          Then(GetRadios,
            Then(nbapi_LinkInterfaces,
              nbapi_Backhaul(
                nbapi_GetInterfaces(
                  nbapi_BuildAgent(
                    FindController(st, i), i), i), i), i), i), i), i), i)

\* nbapi.py:173: controller_id is a local bound only by the branch of line 44
RequireControllerID(st) ==
    IF st.err = "" /\ st.controller_id = Unbound
    THEN Raise(st, "UnboundLocalError")
    ELSE st

nbapi_marshall_nbapi_blob(blob, s2r, moved, rssi) ==
    IF blob.type # "list"
    THEN ReturnEmptyTopology(ResolverState(blob.items, Unbound, s2r, moved, rssi))
    ELSE ReturnTopology(RequireControllerID(
             ForEachEntry(nbapi_Entry,
                          ResolverState(blob.items, Unbound, s2r, moved, rssi))))

(***************************************************************************)
(* The records of the data model the environment delivers.                 *)
(***************************************************************************)
Root == <<"Device", "WiFi", "DataElements", "Network">>
DevicePath(d) == Root \o <<"Device", d>>
RadioPath(d, r) == DevicePath(d) \o <<"Radio", r>>
BSSPath(d, r, b) == RadioPath(d, r) \o <<"BSS", b>>

NetworkRecord(cid) ==
    Entry(Root, [NoParams EXCEPT !.keys = {"ControllerID"}, !.ControllerID = cid])
DeviceRecord(d, id) ==
    Entry(DevicePath(d), [NoParams EXCEPT !.keys = {"ID"}, !.ID = id])
InterfaceRecord(d, n, mac, mt) ==
    Entry(DevicePath(d) \o <<"Interface", n>>,
          [NoParams EXCEPT !.keys = {"MACAddress", "MediaType"},
                           !.MACAddress = mac, !.MediaType = mt])
RadioRecord(d, r, id) ==
    Entry(RadioPath(d, r), [NoParams EXCEPT !.keys = {"ID"}, !.ID = id])
BSSRecord(d, r, b, bssid) ==
    Entry(BSSPath(d, r, b),
          [NoParams EXCEPT !.keys = {"BSSID", "SSID"}, !.BSSID = bssid,
                           !.SSID = "prplMesh"])
STARecord(d, r, b, s, mac, rssi) ==
    Entry(BSSPath(d, r, b) \o <<"STA", s>>,
          [NoParams EXCEPT !.keys = {"MACAddress", "SignalStrength"},
                           !.MACAddress = mac, !.SignalStrength = rssi])

\* one controller A1 with two radios R1, R2, one interface per radio and
\* one BSS per radio
Infra ==
    <<NetworkRecord("A1"), DeviceRecord("1", "A1"),
      InterfaceRecord("1", "1", "R1", MT_Int(256)),
      InterfaceRecord("1", "2", "R2", MT_Int(260)),
      RadioRecord("1", "1", "R1"), RadioRecord("1", "2", "R2"),
      BSSRecord("1", "1", "1", "B1"), BSSRecord("1", "2", "1", "B2")>>

S1onR1(rssi) == STARecord("1", "1", "1", "1", "S1", rssi)
S1onR2(rssi) == STARecord("1", "2", "1", "1", "S1", rssi)
S2onR1(rssi) == STARecord("1", "1", "1", "2", "S2", rssi)

Reverse(s) == [k \in 1..Len(s) |-> s[Len(s) + 1 - k]]

\* blobs that are no list: a JSON string, object, null
GarbageBlobs == {JsonOther("str"), JsonOther("dict"), JsonOther("NoneType")}

\* lists without stations
SmallBlobs ==
    {JsonList(<<>>),
     JsonList(<<DeviceRecord("1", "A1")>>),
     JsonList(<<NetworkRecord("A1")>>),
     JsonList(<<NetworkRecord("A2"), DeviceRecord("1", "A1")>>),
     JsonList(<<NetworkRecord("A1"), DeviceRecord("1", "A1"), DeviceRecord("2", "A1")>>),
     JsonList(<<NetworkRecord("A1"), DeviceRecord("1", "A1"), DeviceRecord("2", "A2")>>),
     JsonList(<<DeviceRecord("1", "A1"), NetworkRecord("A1")>>),
     JsonList(Infra)}

\* station S1 on radio R1 or R2 (or reported on both), S2 on R1
StationBlobs ==
    {JsonList(Infra \o <<S1onR1(-40)>>),
     JsonList(Infra \o <<S1onR1(-70)>>),
     JsonList(Infra \o <<S1onR2(-40)>>),
     JsonList(Infra \o <<S1onR2(-40), S1onR1(-40)>>),
     JsonList(Infra \o <<S1onR1(-40), S2onR1(-55)>>)}

\* one controller, one radio, one BSS, two stations: with and without the
\* interface that carries the radio's MAC
CountBlobs ==
    {JsonList(<<NetworkRecord("A1"), DeviceRecord("1", "A1"),
                InterfaceRecord("1", "1", "R1", MT_Int(256)),
                RadioRecord("1", "1", "R1"), BSSRecord("1", "1", "1", "B1"),
                S1onR1(-40), S2onR1(-55)>>),
     JsonList(<<NetworkRecord("A1"), DeviceRecord("1", "A1"),
                RadioRecord("1", "1", "R1"), BSSRecord("1", "1", "1", "B1"),
                S1onR1(-40), S2onR1(-55)>>)}

\* the same records in another order
ReorderedBlobs == {JsonList(Reverse(Infra \o <<S1onR1(-40)>>))}

Blobs == GarbageBlobs \cup SmallBlobs \cup StationBlobs \cup CountBlobs \cup ReorderedBlobs

MoveBlobs ==
    {JsonList(Infra), JsonList(Infra \o <<S1onR1(-40)>>),
     JsonList(Infra \o <<S1onR2(-40)>>),
     JsonList(Infra \o <<S1onR2(-40), S1onR1(-40)>>),
     JsonList(Infra \o <<S1onR1(-40), S2onR1(-55)>>),
     JsonList(Infra \o <<S1onR2(-40), S2onR1(-55)>>)}

MACs == {"S1", "S2"}
RUIDs == {"R1", "R2"}

(***************************************************************************)
(* The state after the modules are imported.                               *)
(***************************************************************************)
NoCall == [op |-> "none"]
NoBlob == JsonOther("unset")

InitModules ==
    /\ nbapi_json = NoBlob
    /\ g_Topology = Topology__init__(EmptyGraph(<<>>), "")   \* main.py:461
    /\ g_controller_id = ""                                  \* main.py:462
    /\ g_StationsToRadio = EmptyDict
    /\ g_RSSI_Measurements = EmptyDictOfDict
    /\ stations_have_moved = <<>>
    /\ main_exc = ""
    /\ main_fetched = <<>>
    /\ nb_json = NoBlob
    /\ nb_topology = NoTopology                              \* None until the first cycle
    /\ p_StationsThatHaveMoved = <<>>
    /\ p_StationsToRadio = EmptyDict
    /\ p_RSSI_Measurements = EmptyDictOfDict
    /\ nb_exc = ""
    /\ heartbeat_count = 0
    /\ nb_fetched = <<>>
    /\ last_consumed = [mac |-> "", did_station_move |-> FALSE]
    /\ threads = <<>>
    /\ nbapi_thread = 0                                      \* main.py:838
    /\ topology_obj = 0
    /\ allocated = 0
    /\ observed = Topology__init__(EmptyGraph(<<>>), "")
    /\ agent_render_states = EmptyDict                       \* render_state.py:25
    /\ render_calls = [k \in {} |-> [stations |-> 0, same |-> TRUE, returned |-> <<>>]]
    /\ render_ret = "UNKNOWN"

Init == InitModules /\ call = NoCall

(***************************************************************************)
(* main.py: one cycle of NBAPI_Task.run (lines 824-830) that fetched blob, *)
(* or one call of marshall_nbapi_blob(blob) by a test.  An exception       *)
(* leaves g_Topology as it was and the globals as the call left them.      *)
(***************************************************************************)
main_Assign(blob, out) ==
    /\ nbapi_json' = blob
    /\ main_fetched' = Append(main_fetched, blob)
    /\ g_Topology' = IF out.err = "" THEN out.topology ELSE g_Topology
    /\ main_exc' = out.err
    /\ g_controller_id' = out.controller_id
    /\ g_StationsToRadio' = out.s2r
    /\ stations_have_moved' = out.moved
    /\ g_RSSI_Measurements' = out.rssi

main_Cycle(blob) ==
    /\ Len(main_fetched) < MaxCycles
    /\ main_Assign(blob, main_marshall_nbapi_blob(blob, g_controller_id,
                              g_StationsToRadio, stations_have_moved,
                              g_RSSI_Measurements))
    /\ UNCHANGED <<nb_vars, last_consumed, call, task_vars, render_vars>>

\* main.py:1112-1117 sta_has_moved
sta_has_moved(sta_mac) ==
    /\ last_consumed' = [mac |-> sta_mac,
                         did_station_move |-> InSeq(sta_mac, stations_have_moved)]
    /\ stations_have_moved' = IF InSeq(sta_mac, stations_have_moved)
                              THEN RemoveFirst(stations_have_moved, sta_mac)
                              ELSE stations_have_moved
    /\ UNCHANGED <<nbapi_json, g_Topology, g_controller_id, g_StationsToRadio,
                   g_RSSI_Measurements, main_exc, main_fetched, nb_vars, call,
                   task_vars, render_vars>>

(***************************************************************************)
(* nbapi.py: one cycle of NBAPITask.run (lines 244-251) that fetched blob. *)
(***************************************************************************)
nbapi_Assign(blob, out) ==
    /\ nb_json' = blob
    /\ nb_fetched' = Append(nb_fetched, blob)
    /\ heartbeat_count' = heartbeat_count + 1
    /\ nb_topology' = IF out.err = "" THEN out.topology ELSE nb_topology
    /\ nb_exc' = out.err
    /\ p_StationsToRadio' = out.s2r
    /\ p_StationsThatHaveMoved' = out.moved
    /\ p_RSSI_Measurements' = out.rssi

nbapi_Cycle(blob) ==
    /\ heartbeat_count < MaxCycles
    /\ nbapi_Assign(blob, nbapi_marshall_nbapi_blob(blob, p_StationsToRadio,
                               p_StationsThatHaveMoved, p_RSSI_Measurements))
    /\ UNCHANGED <<main_vars, last_consumed, call, task_vars, render_vars>>

\* nbapi_persistent.py:45-58 get_did_station_move
get_did_station_move(sta_mac) ==
    /\ last_consumed' = [mac |-> sta_mac,
                         did_station_move |-> InSeq(sta_mac, p_StationsThatHaveMoved)]
    /\ p_StationsThatHaveMoved' = IF InSeq(sta_mac, p_StationsThatHaveMoved)
                                  THEN RemoveFirst(p_StationsThatHaveMoved, sta_mac)
                                  ELSE p_StationsThatHaveMoved
    /\ UNCHANGED <<main_vars, nb_json, nb_fetched, heartbeat_count, nb_topology,
                   nb_exc, p_StationsToRadio, p_RSSI_Measurements, call, task_vars, render_vars>>

MainNext == \E blob \in Blobs : main_Cycle(blob)
NbapiNext == \E blob \in Blobs : nbapi_Cycle(blob)

MainMovesNext ==
    \/ \E blob \in MoveBlobs : main_Cycle(blob)
    \/ \E sta_mac \in MACs : sta_has_moved(sta_mac)
NbapiMovesNext ==
    \/ \E blob \in MoveBlobs : nbapi_Cycle(blob)
    \/ \E sta_mac \in MACs : get_did_station_move(sta_mac)

SpecMain == Init /\ [][MainNext]_vars
SpecNbapi == Init /\ [][NbapiNext]_vars
SpecMainMoves == Init /\ [][MainMovesNext]_vars
SpecNbapiMoves == Init /\ [][NbapiMovesNext]_vars

(***************************************************************************)
(* Properties of the resolver's result.                                    *)
(***************************************************************************)
HasNetworkRoot(blob) ==
    \E k \in 1..Len(blob.items) : MatchesNetwork(blob.items[k].path)

HasStation(blob) ==
    \E k \in 1..Len(blob.items) : MatchesIndexed(blob.items[k].path, "STA")

\* C1: after marshall_nbapi_blob (main.py) was handed a blob that is not a
\* list, it has raised nothing and the Topology it returned has zero
\* connections and no controller.
C1_NonListGivesEmptyTopology ==
    (main_fetched # <<>> /\ nbapi_json.type # "list") =>
        /\ main_exc = ""
        /\ Topology_get_connections(g_Topology) = <<>>
        /\ Topology_get_num_connections_total(g_Topology) = 0
        /\ Topology_get_controller(g_Topology) = 0

\* the non-list blob came after a cycle that had resolved a station
C1_Witness ==
    /\ Len(main_fetched) >= 2
    /\ nbapi_json.type # "list"
    /\ LET before == main_fetched[Len(main_fetched) - 1]
       IN  before.type = "list" /\ HasStation(before) /\ HasNetworkRoot(before)
    /\ main_exc = ""
    /\ g_Topology.agent_list = <<>>

\* C1 for nbapi.py's resolver
C1_Nbapi ==
    (nb_fetched # <<>> /\ nb_json.type # "list") =>
        /\ nb_exc = ""
        /\ Topology_get_connections(nb_topology) = <<>>
        /\ Topology_get_controller(nb_topology) = 0

\* C2: after marshall_nbapi_blob (nbapi.py) was handed the empty list, or
\* any list with no network-root record, it has raised nothing and the
\* Topology it returned has no agents and no controller.
C2_NoNetworkRootGivesEmptyTopology ==
    (nb_fetched # <<>> /\ nb_json.type = "list" /\ ~HasNetworkRoot(nb_json)) =>
        /\ nb_exc = ""
        /\ nb_topology.agent_list = <<>>
        /\ Topology_get_controller(nb_topology) = 0

\* C2 for the empty list alone, main.py's resolver
C2_MainEmptyList ==
    (main_fetched # <<>> /\ nbapi_json = JsonList(<<>>)) =>
        /\ main_exc = ""
        /\ g_Topology.agent_list = <<>>
        /\ Topology_get_controller(g_Topology) = 0

\* C2 for every list with no network-root record, main.py's resolver
C2_MainNoNetworkRoot ==
    (main_fetched # <<>> /\ nbapi_json.type = "list" /\ ~HasNetworkRoot(nbapi_json)) =>
        /\ main_exc = ""
        /\ g_Topology.agent_list = <<>>
        /\ Topology_get_controller(g_Topology) = 0

(***************************************************************************)
(* Move detection.                                                         *)
(***************************************************************************)
\* the RUIDs of the radios under which topology t holds a station sta_mac
RadiosOf(t, sta_mac) ==
    LET v == StationVisits(t)
    IN  {Radio_get_ruid(t, v[k].radio) :
            k \in {j \in 1..Len(v) : Station_get_mac(t, v[j].sta) = sta_mac}}

\* the step is a cycle of nbapi.py / of main.py that raised nothing
NbapiCycleStep == nb_fetched' # nb_fetched /\ nb_exc' = ""
MainCycleStep == main_fetched' # main_fetched /\ main_exc' = ""

\* the step is get_did_station_move(sta_mac) / sta_has_moved(sta_mac)
NbapiConsumeStep(sta_mac) == nb_fetched' = nb_fetched /\ last_consumed'.mac = sta_mac
MainConsumeStep(sta_mac) == main_fetched' = main_fetched /\ last_consumed'.mac = sta_mac

\* a consume of a MAC pending once reports true and leaves it not pending,
\* a consume of a MAC not pending reports false
ConsumeOnce(sta_mac, moved, movedAfter) ==
    /\ Count(sta_mac, moved) = 1 =>
          last_consumed'.did_station_move /\ Count(sta_mac, movedAfter) = 0
    /\ Count(sta_mac, moved) = 0 =>
          ~last_consumed'.did_station_move /\ movedAfter = moved

\* C3 as claimed: when the history maps a MAC to R1 and a cycle places the
\* MAC under another radio R2, the MAC is pending exactly once after the
\* cycle and the history maps it to R2; the first get_did_station_move of
\* a MAC pending once reports true, the next one reports false.
C3_MoveReportedOnce ==
    [][\A sta_mac \in MACs :
        /\ \A R2 \in RUIDs :
             ( /\ NbapiCycleStep
               /\ sta_mac \in DOMAIN p_StationsToRadio
               /\ p_StationsToRadio[sta_mac] # R2
               /\ R2 \in RadiosOf(nb_topology', sta_mac) )
             => /\ Count(sta_mac, p_StationsThatHaveMoved') = 1
                /\ sta_mac \in DOMAIN p_StationsToRadio'
                /\ p_StationsToRadio'[sta_mac] = R2
        /\ NbapiConsumeStep(sta_mac) =>
             ConsumeOnce(sta_mac, p_StationsThatHaveMoved, p_StationsThatHaveMoved')
      ]_vars

\* C3 amended: the same, for a MAC that is not pending before the cycle
\* and that the cycle places under R2 only.
C3_MoveReportedOnceIfNotPending ==
    [][\A sta_mac \in MACs :
        /\ \A R2 \in RUIDs :
             ( /\ NbapiCycleStep
               /\ sta_mac \in DOMAIN p_StationsToRadio
               /\ p_StationsToRadio[sta_mac] # R2
               /\ Count(sta_mac, p_StationsThatHaveMoved) = 0
               /\ RadiosOf(nb_topology', sta_mac) = {R2} )
             => /\ Count(sta_mac, p_StationsThatHaveMoved') = 1
                /\ sta_mac \in DOMAIN p_StationsToRadio'
                /\ p_StationsToRadio'[sta_mac] = R2
        /\ NbapiConsumeStep(sta_mac) =>
             ConsumeOnce(sta_mac, p_StationsThatHaveMoved, p_StationsThatHaveMoved')
      ]_vars

\* S1 was on R1, moved to R2, and was asked for twice since: the second
\* answer was false
C3_Witness ==
    /\ Len(nb_fetched) = 2
    /\ RadiosOf(nbapi_marshall_nbapi_blob(nb_fetched[1], EmptyDict, <<>>,
                                          EmptyDictOfDict).topology, "S1") = {"R1"}
    /\ RadiosOf(nb_topology, "S1") = {"R2"}
    /\ p_StationsToRadio["S1"] = "R2"
    /\ p_StationsThatHaveMoved = <<>>
    /\ last_consumed = [mac |-> "S1", did_station_move |-> FALSE]

\* C3 amended, for main.py's resolver and sta_has_moved
C3_Main ==
    [][\A sta_mac \in MACs :
        /\ \A R2 \in RUIDs :
             ( /\ MainCycleStep
               /\ sta_mac \in DOMAIN g_StationsToRadio
               /\ g_StationsToRadio[sta_mac] # R2
               /\ Count(sta_mac, stations_have_moved) = 0
               /\ RadiosOf(g_Topology', sta_mac) = {R2} )
             => /\ Count(sta_mac, stations_have_moved') = 1
                /\ sta_mac \in DOMAIN g_StationsToRadio'
                /\ g_StationsToRadio'[sta_mac] = R2
        /\ MainConsumeStep(sta_mac) =>
             ConsumeOnce(sta_mac, stations_have_moved, stations_have_moved')
      ]_vars

(***************************************************************************)
(* RSSI accumulation.                                                      *)
(***************************************************************************)
\* the readings blob holds for the pair (ruid, sta_mac), in list order: the
\* SignalStrength of every STA record with that MAC below a Radio record
\* with that ID
ReadingsIn(blob, ruid, sta_mac) ==
    LET IsReading(e) ==
            /\ MatchesIndexed(e.path, "STA")
            /\ e.parameters.MACAddress = sta_mac
            /\ \E k \in 1..Len(blob.items) :
                  /\ MatchesIndexed(blob.items[k].path, "Radio")
                  /\ startswith(e.path, blob.items[k].path)
                  /\ blob.items[k].parameters.ID = ruid
        hits == SelectSeq(blob.items, IsReading)
    IN  [k \in 1..Len(hits) |-> hits[k].parameters.SignalStrength]

\* the series kept for (ruid, sta_mac), <<>> when none is kept
Series(rssi, ruid, sta_mac) ==
    IF ruid \in DOMAIN rssi /\ sta_mac \in DOMAIN rssi[ruid]
    THEN rssi[ruid][sta_mac] ELSE <<>>

HasSeries(rssi, ruid, sta_mac) ==
    ruid \in DOMAIN rssi /\ sta_mac \in DOMAIN rssi[ruid]

\* C4: starting from the empty history, when each of the n cycles made so
\* far (main.py) held one reading for the pair (ruid, sta_mac) and raised
\* nothing, the series kept for the pair is the n readings in arrival order.
C4_SeriesHoldsEveryReading ==
    \A ruid \in RUIDs, sta_mac \in MACs :
        ( /\ main_fetched # <<>>
          /\ \A k \in 1..Len(main_fetched) :
                /\ Len(ReadingsIn(main_fetched[k], ruid, sta_mac)) = 1
                /\ main_marshall_nbapi_blob(main_fetched[k], "", EmptyDict, <<>>,
                                            EmptyDictOfDict).err = "" )
        => /\ HasSeries(g_RSSI_Measurements, ruid, sta_mac)
           /\ g_RSSI_Measurements[ruid][sta_mac] =
                 [k \in 1..Len(main_fetched) |->
                     ReadingsIn(main_fetched[k], ruid, sta_mac)[1]]

\* C4 for nbapi.py's resolver and nbapi_persistent.py, over cycles that
\* raise nothing
C4_Nbapi ==
    \A ruid \in RUIDs, sta_mac \in MACs :
        ( /\ nb_fetched # <<>>
          /\ \A k \in 1..Len(nb_fetched) :
                /\ Len(ReadingsIn(nb_fetched[k], ruid, sta_mac)) = 1
                /\ nbapi_marshall_nbapi_blob(nb_fetched[k], EmptyDict, <<>>,
                                             EmptyDictOfDict).err = "" )
        => /\ HasSeries(p_RSSI_Measurements, ruid, sta_mac)
           /\ p_RSSI_Measurements[ruid][sta_mac] =
                 [k \in 1..Len(nb_fetched) |->
                     ReadingsIn(nb_fetched[k], ruid, sta_mac)[1]]

(***************************************************************************)
(* The structure of a Topology: what it holds and how it is linked, by     *)
(* data-model path, whatever the order of its lists.                       *)
(***************************************************************************)
SeqToSet(s) == {s[k] : k \in 1..Len(s)}

Structure(t) ==
    LET A == SeqToSet(t.agent_list)
        I == UNION {SeqToSet(t.agents[a].interfaces) : a \in A}
        R == UNION {SeqToSet(t.agents[a].radios) : a \in A}
        B == UNION {SeqToSet(t.radios[r].bsses) : r \in R}
    IN  [agents |-> {[path |-> t.agents[a].path, isController |-> t.agents[a].isController,
                      children |-> {t.agents[c].path : c \in SeqToSet(t.agents[a].children)}] :
                        a \in A},
         controller |-> IF t.controller = 0 THEN <<>> ELSE t.agents[t.controller].path,
         interfaces |-> UNION {{[agent |-> t.agents[a].path, path |-> t.ifaces[i].path,
                                 wired |-> t.P[t.ifaces[i].rec].wired,
                                 wireless |-> t.P[t.ifaces[i].rec].wireless,
                                 orientation |-> t.ifaces[i].orientation,
                                 children |-> {t.ifaces[c].path :
                                                 c \in SeqToSet(t.ifaces[i].children)},
                                 neighbors |-> {t.nbrs[n].path :
                                                 n \in SeqToSet(t.ifaces[i].neighbors)}] :
                                   i \in SeqToSet(t.agents[a].interfaces)} : a \in A},
         radios |-> UNION {{[agent |-> t.agents[a].path, path |-> t.radios[r].path] :
                               r \in SeqToSet(t.agents[a].radios)} : a \in A},
         bsses |-> UNION {{[radio |-> t.radios[r].path, path |-> t.bsses[b].path,
                            interface |-> IF t.bsses[b].interface = 0 THEN <<>>
                                          ELSE t.ifaces[t.bsses[b].interface].path] :
                              b \in SeqToSet(t.radios[r].bsses)} : r \in R},
         stations |-> UNION {{[bss |-> t.bsses[b].path, path |-> t.stas[s].path,
                               is_steered |-> t.stas[s].is_steered] :
                                 s \in SeqToSet(t.bsses[b].connected_stations)} : b \in B}]

\* the list with the entries at k and k+1 exchanged
SwapAt(s, k) == [j \in 1..Len(s) |-> IF j = k THEN s[k + 1] ELSE IF j = k + 1 THEN s[k] ELSE s[j]]

\* permutations of a list: its reversal and every exchange of two neighbours
Reorderings(s) == {Reverse(s)} \cup {SwapAt(s, k) : k \in 1..(Len(s) - 1)}

\* C5: a reordering of the list fetched last resolves (nbapi.py), from the
\* same history, as the list itself does: both raise nothing and give
\* Topologies of the same structure.
C5_OrderIndependent ==
    (nb_fetched # <<>> /\ nb_json.type = "list" /\ nb_exc = "") =>
        \A q \in Reorderings(nb_json.items) :
            LET other == nbapi_marshall_nbapi_blob(JsonList(q), p_StationsToRadio,
                             p_StationsThatHaveMoved, p_RSSI_Measurements)
            IN  /\ other.err = ""
                /\ Structure(other.topology) = Structure(nb_topology)

\* C5 for main.py's resolver
C5_Main ==
    (main_fetched # <<>> /\ nbapi_json.type = "list" /\ main_exc = "") =>
        \A q \in Reorderings(nbapi_json.items) :
            LET other == main_marshall_nbapi_blob(JsonList(q), g_controller_id,
                             g_StationsToRadio, stations_have_moved, g_RSSI_Measurements)
            IN  /\ other.err = ""
                /\ Structure(other.topology) = Structure(g_Topology)

\* C6: when a cycle (main.py) resolves the list the cycle before it
\* resolved, both raising nothing, the two Topologies have the same
\* structure, the moved list and the station map are left as they were, and
\* every series the list holds a reading for is strictly longer.
C6_ResolveTwice ==
    [][( /\ main_fetched # <<>>
         /\ main_fetched' = Append(main_fetched, nbapi_json)
         /\ nbapi_json.type = "list"
         /\ main_exc = "" /\ main_exc' = "" )
       => /\ Structure(g_Topology') = Structure(g_Topology)
          /\ stations_have_moved' = stations_have_moved
          /\ g_StationsToRadio' = g_StationsToRadio
          /\ \A ruid \in RUIDs, sta_mac \in MACs :
                IF ReadingsIn(nbapi_json, ruid, sta_mac) # <<>>
                THEN Len(Series(g_RSSI_Measurements', ruid, sta_mac)) >
                        Len(Series(g_RSSI_Measurements, ruid, sta_mac))
                ELSE Series(g_RSSI_Measurements', ruid, sta_mac) =
                        Series(g_RSSI_Measurements, ruid, sta_mac)
      ]_vars

\* C6 for nbapi.py's resolver
C6_Nbapi ==
    [][( /\ nb_fetched # <<>>
         /\ nb_fetched' = Append(nb_fetched, nb_json)
         /\ nb_json.type = "list"
         /\ nb_exc = "" /\ nb_exc' = "" )
       => /\ Structure(nb_topology') = Structure(nb_topology)
          /\ p_StationsThatHaveMoved' = p_StationsThatHaveMoved
          /\ p_StationsToRadio' = p_StationsToRadio
          /\ \A ruid \in RUIDs, sta_mac \in MACs :
                IF ReadingsIn(nb_json, ruid, sta_mac) # <<>>
                THEN Len(Series(p_RSSI_Measurements', ruid, sta_mac)) >
                        Len(Series(p_RSSI_Measurements, ruid, sta_mac))
                ELSE Series(p_RSSI_Measurements', ruid, sta_mac) =
                        Series(p_RSSI_Measurements, ruid, sta_mac)
      ]_vars

(***************************************************************************)
(* Interface.add_child on two interfaces of any two media types.           *)
(***************************************************************************)
\* the keys and the strings of easymesh.py:29-44, 1 (the Ethernet fallback
\* compares with) and a code the table does not hold
MediaTypes ==
    {MT_Int(c) : c \in {0, 1, 256, 257, 258, 260, 262, 263, 264, 512, 513, 768, 65535, 4660}}
    \cup {MT_Str(n) : n \in {"IEEE_802_3AB_GIGABIT_ETHERNET", "IEEE_802_11N_2_4_GHZ",
                             "IEEE_802_11AX"}}

ParentIface == 1
ChildIface == 2

\* Interface(path, params) for a parent with MAC E1 and a child with MAC E2
TwoInterfaces(pmt, cmt) ==
    LET json == <<InterfaceRecord("1", "1", "E1", pmt), InterfaceRecord("2", "1", "E2", cmt)>>
    IN  Interface__init__(Interface__init__(EmptyGraph(json), 1), 2)

InitAddChild ==
    /\ InitModules
    /\ \E pmt \in MediaTypes, cmt \in MediaTypes :
          call = [op |-> "Interface", before |-> TwoInterfaces(pmt, cmt),
                  after |-> TwoInterfaces(pmt, cmt)]

\* parent.add_child(child)
add_child ==
    /\ call.op = "Interface"
    /\ call' = [op |-> "add_child", before |-> call.before,
                after |-> Interface_add_child(call.before, ParentIface, ChildIface)]
    /\ UNCHANGED <<main_vars, nb_vars, last_consumed, task_vars, render_vars>>

SpecAddChild == InitAddChild /\ [][add_child]_vars

\* the classification an interface carries
Classification(g, i) ==
    LET p == g.P[g.ifaces[i].rec]
    IN  [wired |-> p.wired, wireless |-> p.wireless]

IsWireless(g, i) == g.P[g.ifaces[i].rec].wireless = 1

Disagree(g) == IsWireless(g, ParentIface) # IsWireless(g, ChildIface)

\* C7 as claimed: when parent and child disagree on the classification,
\* after add_child both carry the non-wireless one (wired = 1, wireless = 0).
C7_WiredWins ==
    (call.op = "add_child" /\ Disagree(call.before)) =>
        \A i \in {ParentIface, ChildIface} :
            Classification(call.after, i) = [wired |-> 1, wireless |-> 0]

\* C7 amended: when parent and child disagree on the classification, after
\* add_child both carry the wireless one (wired = 0, wireless = 1) and the
\* media type string of the side that was wireless.
C7_WirelessWins ==
    (call.op = "add_child" /\ Disagree(call.before)) =>
        LET w == IF IsWireless(call.before, ParentIface) THEN ParentIface ELSE ChildIface
        IN  \A i \in {ParentIface, ChildIface} :
              /\ Classification(call.after, i) = [wired |-> 0, wireless |-> 1]
              /\ call.after.P[call.after.ifaces[i].rec].MediaTypeString =
                    call.before.P[call.before.ifaces[w].rec].MediaTypeString

\* a wired parent took a wireless child, and a wireless parent a wired child
C7_Witness ==
    /\ call.op = "add_child"
    /\ ~IsWireless(call.before, ParentIface) /\ IsWireless(call.before, ChildIface)
    /\ call.after.ifaces[ParentIface].children = <<ChildIface>>
    /\ IsWireless(call.after, ParentIface)

(***************************************************************************)
(* Topology.validate_vbss_move_request on the Topologies the resolver      *)
(* builds.                                                                 *)
(***************************************************************************)
\* the Topologies main.py's resolver returns for the blobs, from the state
\* after import, and the Topology({}, "") of main.py:461
Topologies ==
    {Topology__init__(EmptyGraph(<<>>), "")} \cup
    {o.topology : o \in {ob \in {main_marshall_nbapi_blob(blob, "", EmptyDict, <<>>,
                                     EmptyDictOfDict) : blob \in Blobs} : ob.err = ""}}

\* S3 is in no blob
QueryMACs == MACs \cup {"S3"}
QueryRUIDs == RUIDs \cup {""}

InitQuery ==
    /\ InitModules
    /\ \E t \in Topologies :
          call = [op |-> "Topology", topology |-> t, station_mac |-> "",
                  target_ruid |-> "", ret |-> TRUE]

validate_vbss_move_request(station_mac, target_ruid) ==
    /\ call.op = "Topology"
    /\ call' = [call EXCEPT
                  !.op = "validate_vbss_move_request",
                  !.station_mac = station_mac,
                  !.target_ruid = target_ruid,
                  !.ret = Topology_validate_vbss_move_request(call.topology, station_mac,
                                                              target_ruid)]
    /\ UNCHANGED <<main_vars, nb_vars, last_consumed, task_vars, render_vars>>

SpecQuery ==
    InitQuery /\ [][\E station_mac \in QueryMACs, target_ruid \in QueryRUIDs :
                        validate_vbss_move_request(station_mac, target_ruid)]_vars

\* C8: validate_vbss_move_request(station_mac, target_ruid) returns False
\* exactly when the Topology holds the station in a BSS of a radio whose
\* RUID is target_ruid, and True otherwise (a MAC the Topology does not
\* hold and the empty target_ruid included).
C8_FalseIffOnTargetRadio ==
    call.op = "validate_vbss_move_request" =>
        (call.ret = FALSE <=> call.target_ruid \in RadiosOf(call.topology, call.station_mac))

\* C8 for the stations the Topology holds on one radio only
C8_StationOnOneRadio ==
    (call.op = "validate_vbss_move_request"
        /\ Cardinality(RadiosOf(call.topology, call.station_mac)) = 1) =>
        (call.ret = FALSE <=> call.target_ruid \in RadiosOf(call.topology, call.station_mac))

(***************************************************************************)
(* Counts and the controller flag.                                         *)
(***************************************************************************)
RecordsOf(blob, kind) ==
    {k \in 1..Len(blob.items) : MatchesIndexed(blob.items[k].path, kind)}

NetworkRoots(blob) ==
    {k \in 1..Len(blob.items) : MatchesNetwork(blob.items[k].path)}

\* one controller Device record, one Radio record under it, one BSS record
\* under that radio, every STA record under that BSS
OneControllerRadioBSS(blob) ==
    /\ blob.type = "list"
    /\ \E n \in NetworkRoots(blob), d \in RecordsOf(blob, "Device"),
          r \in RecordsOf(blob, "Radio"), b \in RecordsOf(blob, "BSS") :
          /\ NetworkRoots(blob) = {n} /\ RecordsOf(blob, "Device") = {d}
          /\ RecordsOf(blob, "Radio") = {r} /\ RecordsOf(blob, "BSS") = {b}
          /\ blob.items[d].parameters.ID = blob.items[n].parameters.ControllerID
          /\ startswith(blob.items[r].path, blob.items[d].path)
          /\ startswith(blob.items[b].path, blob.items[r].path)
          /\ \A s \in RecordsOf(blob, "STA") :
                startswith(blob.items[s].path, blob.items[b].path)

\* an Interface record carries the MAC that is the ID of a Radio record
RadioHasInterface(blob) ==
    \E i \in RecordsOf(blob, "Interface"), r \in RecordsOf(blob, "Radio") :
        blob.items[i].parameters.MACAddress = blob.items[r].parameters.ID

\* C9: a list with one controller Device, one Radio under it, one BSS under
\* that radio and n STA records under that BSS resolves (main.py) to a
\* Topology with 1 agent, n stations in total and n connections.
C9_StationCount ==
    (main_fetched # <<>> /\ OneControllerRadioBSS(nbapi_json)) =>
        /\ main_exc = ""
        /\ Len(g_Topology.agent_list) = 1
        /\ Topology_get_num_stations_total(g_Topology) =
              Cardinality(RecordsOf(nbapi_json, "STA"))
        /\ Topology_get_num_connections_total(g_Topology) =
              Cardinality(RecordsOf(nbapi_json, "STA"))

\* C9 for the lists that hold the radio's interface too
C9_WithRadioInterface ==
    (main_fetched # <<>> /\ OneControllerRadioBSS(nbapi_json)
        /\ RadioHasInterface(nbapi_json)) =>
        /\ main_exc = ""
        /\ Len(g_Topology.agent_list) = 1
        /\ Topology_get_num_stations_total(g_Topology) =
              Cardinality(RecordsOf(nbapi_json, "STA"))
        /\ Topology_get_num_connections_total(g_Topology) =
              Cardinality(RecordsOf(nbapi_json, "STA"))

\* the listed agents of t that carry the controller flag
Flagged(t) == {k \in 1..Len(t.agent_list) : t.agents[t.agent_list[k]].isController}

\* the ControllerID of the last network-root record
LastControllerID(blob) ==
    blob.items[CHOOSE n \in NetworkRoots(blob) : \A m \in NetworkRoots(blob) : m <= n]
        .parameters.ControllerID

\* C10 as claimed: in the Topology built (main.py) from a record list,
\* exactly one agent has isController set, and its ID is the ControllerID
\* of the network-root record.
C10_ExactlyOneController ==
    (main_fetched # <<>> /\ nbapi_json.type = "list" /\ main_exc = "") =>
        /\ Cardinality(Flagged(g_Topology)) = 1
        /\ \A k \in Flagged(g_Topology) :
              /\ HasNetworkRoot(nbapi_json)
              /\ Agent_get_id(g_Topology, g_Topology.agent_list[k]) =
                    LastControllerID(nbapi_json)

\* C10 amended: in the Topology built (main.py) from a record list that
\* holds a network-root record, the agents with isController set are
\* exactly the agents whose ID is the ControllerID of that record: none
\* when no agent has that ID, several when several have it.
C10_FlaggedIffControllerID ==
    (main_fetched # <<>> /\ nbapi_json.type = "list" /\ main_exc = ""
        /\ HasNetworkRoot(nbapi_json)) =>
        /\ \A k \in 1..Len(g_Topology.agent_list) :
              g_Topology.agents[g_Topology.agent_list[k]].isController
                 <=> Agent_get_id(g_Topology, g_Topology.agent_list[k]) =
                        LastControllerID(nbapi_json)
        /\ Topology_get_controller(g_Topology) = 0 <=> Flagged(g_Topology) = {}
        /\ Topology_get_controller(g_Topology) # 0 =>
              Topology_get_controller(g_Topology) \in
                  {g_Topology.agent_list[k] : k \in Flagged(g_Topology)}

\* two agents were built, the one with the ControllerID is flagged, the
\* other is not
C10_Witness ==
    /\ main_fetched # <<>> /\ nbapi_json.type = "list" /\ main_exc = ""
    /\ HasNetworkRoot(nbapi_json)
    /\ Len(g_Topology.agent_list) = 2
    /\ Cardinality(Flagged(g_Topology)) = 1

\* C10 amended, for nbapi.py's resolver
C10_Nbapi ==
    (nb_fetched # <<>> /\ nb_json.type = "list" /\ nb_exc = ""
        /\ HasNetworkRoot(nb_json)) =>
        \A k \in 1..Len(nb_topology.agent_list) :
            nb_topology.agents[nb_topology.agent_list[k]].isController
               <=> Agent_get_id(nb_topology, nb_topology.agent_list[k]) =
                      LastControllerID(nb_json)


(***************************************************************************)
(* Stations and the BSSes that hold them.                                  *)
(***************************************************************************)
\* the BSSes of Topology t whose connected_stations hold a station of this MAC
BSSesOf(t, sta_mac) ==
    LET v == StationVisits(t)
    IN  {v[k].bss : k \in {j \in 1..Len(v) : Station_get_mac(t, v[j].sta) = sta_mac}}

\* the BSS paths under which the list reports a station of this MAC
ReportedUnder(blob, sta_mac) ==
    {SubSeq(blob.items[k].path, 1, Len(blob.items[k].path) - 2) :
        k \in {j \in RecordsOf(blob, "STA") :
                  blob.items[j].parameters.MACAddress = sta_mac}}

\* C11: in the Topology main.py resolved from any record list, no station MAC
\* is in the connected-station lists of two different BSSes.
C11_StationUnderOneBSS ==
    (main_fetched # <<>> /\ main_exc = "") =>
        \A sta_mac \in MACs : Cardinality(BSSesOf(g_Topology, sta_mac)) <= 1

\* the same when every MAC is reported under one BSS only: then it holds
C11_ReportedOnce ==
    (/\ main_fetched # <<>> /\ main_exc = ""
     /\ \A sta_mac \in MACs : Cardinality(ReportedUnder(nbapi_json, sta_mac)) <= 1) =>
        \A sta_mac \in MACs : Cardinality(BSSesOf(g_Topology, sta_mac)) <= 1

\* the resolver of nbapi.py
C11_Nbapi ==
    (nb_fetched # <<>> /\ nb_exc = "") =>
        \A sta_mac \in MACs : Cardinality(BSSesOf(nb_topology, sta_mac)) <= 1

(***************************************************************************)
(* Backhaul links: a controller with an Ethernet and a Wi-Fi interface,    *)
(* two more devices, and the MultiAPDevice.Backhaul records of a dump.     *)
(***************************************************************************)
BackhaulRecord(d, linkType, mac, backhaulMac) ==
    Entry(DevicePath(d) \o <<"MultiAPDevice", "Backhaul">>,
          [NoParams EXCEPT !.keys = {"LinkType", "MACAddress", "BackhaulMACAddress"},
                           !.LinkType = linkType, !.MACAddress = mac,
                           !.BackhaulMACAddress = backhaulMac])

LinkInfra ==
    <<NetworkRecord("A1"), DeviceRecord("1", "A1"), DeviceRecord("2", "A2"),
      DeviceRecord("3", "A3"),
      InterfaceRecord("1", "1", "E1", MT_Int(1)),
      InterfaceRecord("1", "2", "M1", MT_Int(256)),
      InterfaceRecord("2", "1", "E2", MT_Int(1)),
      InterfaceRecord("2", "2", "M2", MT_Int(256)),
      InterfaceRecord("3", "2", "M3", MT_Int(256))>>

WiFiLink(d, child, parent) == BackhaulRecord(d, "Wi-Fi", child, parent)
EthernetLink(d, mac) == BackhaulRecord(d, "Ethernet", mac, "")

\* the link records of a dump: none, one, or two
LinkLists ==
    {<<>>,
     <<BackhaulRecord("1", "None", "", "")>>,
     <<EthernetLink("2", "E2")>>,
     <<EthernetLink("1", "E1")>>,
     <<WiFiLink("2", "M2", "M1")>>,
     <<WiFiLink("2", "M2", "M2")>>,
     <<WiFiLink("3", "M3", "M2")>>,
     <<WiFiLink("2", "M2", "M1"), WiFiLink("3", "M3", "M2")>>,
     <<WiFiLink("2", "M2", "M1"), WiFiLink("1", "M1", "M2")>>,
     <<EthernetLink("2", "E2"), WiFiLink("3", "M3", "M2")>>,
     <<EthernetLink("2", "E2"), WiFiLink("3", "M3", "E2")>>}

LinkBlobs == {JsonList(LinkInfra \o links) : links \in LinkLists}

MainLinksNext == \E blob \in LinkBlobs : main_Cycle(blob)
NbapiLinksNext == \E blob \in LinkBlobs : nbapi_Cycle(blob)

SpecMainLinks == Init /\ [][MainLinksNext]_vars
SpecNbapiLinks == Init /\ [][NbapiLinksNext]_vars

\* the interfaces that are children of an interface of the set S
ChildrenOf(t, S) ==
    UNION {{t.ifaces[i].children[k] : k \in 1..Len(t.ifaces[i].children)} : i \in S}

RECURSIVE Closure(_, _, _)
Closure(t, S, n) ==
    IF n = 0 THEN S ELSE Closure(t, S \cup ChildrenOf(t, S), n - 1)

\* the children of interface i, their children, and so on
Descendants(t, i) == Closure(t, ChildrenOf(t, {i}), Len(t.ifaces))

HasParent(t, i) == i \in ChildrenOf(t, 1..Len(t.ifaces))

Acyclic(t) == \A i \in 1..Len(t.ifaces) : i \notin Descendants(t, i)

\* every interface that has a parent is below the backhaul interface cbi
\* (0: the resolver found none)
RootedAt(t, cbi) ==
    \A i \in 1..Len(t.ifaces) :
        HasParent(t, i) => (cbi # 0 /\ i \in Descendants(t, cbi))

\* controller_backhaul_interface as main.py:647-671 leaves it for this list
main_BackhaulInterface(blob, controller_id) ==
    main_Passes(ResolverState(blob.items, controller_id, EmptyDict, <<>>,
                              EmptyDictOfDict)).cbi

\* C12: after main.py resolved any list of link records, the parent->child
\* relation of the interfaces is acyclic and every interface that has a
\* parent is reachable from the controller's backhaul interface.
C12_LinksFormTree ==
    (main_fetched # <<>> /\ main_exc = "") =>
        /\ Acyclic(g_Topology)
        /\ RootedAt(g_Topology, main_BackhaulInterface(nbapi_json, g_controller_id))

\* the first half alone, for main.py and for nbapi.py
C12_MainAcyclic == (main_fetched # <<>> /\ main_exc = "") => Acyclic(g_Topology)
C12_NbapiAcyclic == (nb_fetched # <<>> /\ nb_exc = "") => Acyclic(nb_topology)

\* lists whose link records are all Ethernet links, resolved by nbapi.py:
\* lines 100-104 keep the backhaul interface and known children out
OnlyEthernetLinks(blob) ==
    \A k \in 1..Len(blob.items) :
        MatchesBackhaul(blob.items[k].path) =>
            blob.items[k].parameters.LinkType \in {"Ethernet", "None"}
C12_NbapiEthernetAcyclic ==
    (nb_fetched # <<>> /\ nb_exc = "" /\ OnlyEthernetLinks(nb_json)) =>
        Acyclic(nb_topology)

(***************************************************************************)
(* main.py: the poller thread NBAPI_Task (lines 802-836), the callback     *)
(* connect_to_controller that starts it (869-885) and update_graph, the    *)
(* foreground reader of g_Topology (889-890).  A thread is a record:       *)
(*   pc        "while" at line 817, "get" at the request of line 824,      *)
(*             "resolve" inside marshall_nbapi_blob, "assign" at line 830, *)
(*             "done" after run returned or raised                         *)
(*   quitting  self.quitting                                               *)
(*   work      the objects the running marshall_nbapi_blob has built       *)
(*   pass      the passes of that call which have finished                 *)
(*   obj       identity of the Topology object the call is building        *)
(*   failed    a request of this thread came back not ok                   *)
(*   requests  the HTTP requests this thread has sent                      *)
(* The interleaving is at the grain of one resolver pass.                  *)
(***************************************************************************)
MaxTasks == 2
MaxFetches == 2
LastPass == 11

IdleWork == ResolverState(<<>>, "", EmptyDict, <<>>, EmptyDictOfDict)

NewThread ==
    [pc |-> "while", quitting |-> FALSE, json |-> NoBlob, work |-> IdleWork,
     pass |-> 0, obj |-> 0, failed |-> FALSE, requests |-> 0]

TotalRequests == Fold(LAMBDA acc, t : acc + threads[t].requests, 0, 1, Len(threads))

\* the dumps the controller answers a request with
TaskBlobs ==
    {JsonOther("dict"), JsonList(Infra \o <<S1onR1(-40)>>),
     JsonList(Infra \o <<S1onR1(-55)>>), JsonList(Infra \o <<S1onR2(-40)>>)}

\* pass k of main.py over the record list (the fallback of line 663 is pass 5)
main_Pass(k, st) ==
    CASE k = 1 -> ForEachEntry(FindController, st)
      [] k = 2 -> ForEachEntry(main_BuildAgent, st)
      [] k = 3 -> ForEachEntry(main_GetInterfaces, st)
      [] k = 4 -> ForEachEntry(GetNeighbors, st)
      [] k = 5 -> FallbackBackhaul(st)
      [] k = 6 -> ForEachEntry(main_LinkInterfaces, st)
      [] k = 7 -> ForEachEntry(GetRadios, st)
      [] k = 8 -> ForEachEntry(CollectBSS, st)
      [] k = 9 -> ForEachEntry(main_MapStations, st)
      [] k = 10 -> ForEachEntry(main_SteerEvents, st)
      [] k = 11 -> ForEachEntry(main_UnassociatedStations, st)

\* the Topology object a call reusing the published one would build in
NewTopologyObject_Reuse(count, published) == published
\* main.py:798: Topology(agent_list, g_controller_id) over the lists and the
\* objects this call created is an object no earlier call has built
NewTopologyObject(count, published) == count + 1

\* main.py:869-885 connect_to_controller with a valid ip and port
connect_to_controller ==
    /\ Len(threads) < MaxTasks
    /\ threads' = Append(IF nbapi_thread # 0
                         THEN [threads EXCEPT ![nbapi_thread].quitting = TRUE]
                         ELSE threads,
                         NewThread)
    /\ nbapi_thread' = Len(threads) + 1
    /\ UNCHANGED <<render_vars, main_vars, nb_vars, last_consumed, call, topology_obj,
                   allocated, observed>>

\* main.py:817 while not self.quitting
Task_while(t) ==
    /\ threads[t].pc = "while"
    /\ threads' = [threads EXCEPT ![t].pc = IF threads[t].quitting THEN "done"
                                           ELSE "get"]
    /\ UNCHANGED <<render_vars, main_vars, nb_vars, last_consumed, call, nbapi_thread,
                   topology_obj, allocated, observed>>

\* main.py:824-826: the response is not ok
Task_get_failed(t) ==
    /\ threads[t].pc = "get"
    /\ TotalRequests < MaxFetches
    /\ threads' = [threads EXCEPT ![t].pc = "done", ![t].failed = TRUE,
                                  ![t].requests = @ + 1]
    /\ UNCHANGED <<render_vars, main_vars, nb_vars, last_consumed, call, nbapi_thread,
                   topology_obj, allocated, observed>>

\* main.py:824-830 and 617-618: the response is ok, marshall_nbapi_blob is
\* entered with its JSON
Task_get_ok(t, blob) ==
    /\ threads[t].pc = "get"
    /\ TotalRequests < MaxFetches
    /\ threads' = [threads EXCEPT
           ![t].pc = IF blob.type # "list" THEN "assign" ELSE "resolve",
           ![t].requests = @ + 1,
           ![t].json = blob,
           ![t].work = ResolverState(blob.items, g_controller_id, g_StationsToRadio,
                                     stations_have_moved, g_RSSI_Measurements),
           ![t].pass = 0,
           ![t].obj = NewTopologyObject(allocated, topology_obj)]
    /\ allocated' = allocated + 1
    /\ nbapi_json' = blob
    /\ main_fetched' = Append(main_fetched, blob)
    /\ UNCHANGED <<render_vars, g_Topology, g_controller_id, g_StationsToRadio,
                   g_RSSI_Measurements, stations_have_moved, main_exc, nb_vars,
                   last_consumed, call, nbapi_thread, topology_obj, observed>>

\* the globals a pass reads are those of the module at that moment
WithGlobals(work) ==
    [work EXCEPT !.controller_id = g_controller_id, !.s2r = g_StationsToRadio,
                 !.moved = stations_have_moved, !.rssi = g_RSSI_Measurements]

\* what a pass that left st behind has written; an exception ends the thread
Task_store(t, st) ==
    /\ g_controller_id' = st.controller_id
    /\ g_StationsToRadio' = st.s2r
    /\ stations_have_moved' = st.moved
    /\ g_RSSI_Measurements' = st.rssi
    /\ main_exc' = st.err
    /\ threads' = [threads EXCEPT
           ![t].work = st,
           ![t].pass = @ + 1,
           ![t].pc = IF st.err # "" THEN "done"
                     ELSE IF threads[t].pass + 1 = LastPass THEN "assign"
                     ELSE "resolve"]
    /\ g_Topology' = IF threads[t].obj = topology_obj
                     THEN Topology__init__(GraphOf(st), g_Topology.controller_id)
                     ELSE g_Topology

\* main.py:622-772: the next pass of the running call
Task_pass(t) ==
    /\ threads[t].pc = "resolve"
    /\ Task_store(t, main_Pass(threads[t].pass + 1, WithGlobals(threads[t].work)))
    /\ UNCHANGED <<render_vars, nbapi_json, main_fetched, nb_vars, last_consumed, call,
                   nbapi_thread, topology_obj, allocated, observed>>

\* the Topology the finished call returns (main.py:618 or 798)
Task_result(t) ==
    IF threads[t].json.type # "list"
    THEN ReturnEmptyTopology(WithGlobals(threads[t].work)).topology
    ELSE ReturnTopology(WithGlobals(threads[t].work)).topology

\* main.py:830-831: g_Topology = marshall_nbapi_blob(...), then sleep
Task_assign(t) ==
    /\ threads[t].pc = "assign"
    /\ g_Topology' = Task_result(t)
    /\ topology_obj' = threads[t].obj
    /\ threads' = [threads EXCEPT ![t].pc = "while"]
    /\ UNCHANGED <<render_vars, nbapi_json, g_controller_id, g_StationsToRadio,
                   g_RSSI_Measurements, stations_have_moved, main_exc,
                   main_fetched, nb_vars, last_consumed, call, nbapi_thread,
                   allocated, observed>>

\* main.py:889-890 update_graph reads g_Topology
update_graph ==
    /\ observed' = g_Topology
    /\ UNCHANGED <<render_vars, main_vars, nb_vars, last_consumed, call, threads,
                   nbapi_thread, topology_obj, allocated>>

TasksNext ==
    \/ connect_to_controller
    \/ \E t \in 1..Len(threads) : Task_while(t)
    \/ \E t \in 1..Len(threads) : Task_get_failed(t)
    \/ \E t \in 1..Len(threads) : \E blob \in TaskBlobs : Task_get_ok(t, blob)
    \/ \E t \in 1..Len(threads) : Task_pass(t)
    \/ \E t \in 1..Len(threads) : Task_assign(t)
    \/ update_graph

SpecTasks == Init /\ [][TasksNext]_vars

(***************************************************************************)
(* nbapi.py: the poller thread NBAPITask (lines 177-256).  No code of the  *)
(* repository constructs it, so the environment starts and quits the       *)
(* threads.  pc is "clear" at line 240, "while" at line 241, "get" at the  *)
(* request of line 244 and "done" after run returned or raised.  One step  *)
(* is one iteration of the loop; heartbeat_count counts the successful     *)
(* requests and nb_topology is the topology assigned last.                 *)
(***************************************************************************)
\* a clear that drops every history of nbapi_persistent
clear_all_signal_strength_measurements_AllHistory(s2r, moved, rssi) ==
    [s2r |-> EmptyDict, moved |-> <<>>, rssi |-> EmptyDictOfDict]
\* nbapi_persistent.py:94-98 clear_all_signal_strength_measurements
clear_all_signal_strength_measurements(s2r, moved, rssi) ==
    [s2r |-> s2r, moved |-> moved, rssi |-> EmptyDictOfDict]

\* NBAPITask(...).start()
NBAPITask_start ==
    /\ Len(threads) < MaxTasks
    /\ threads' = Append(threads, [NewThread EXCEPT !.pc = "clear"])
    /\ UNCHANGED <<render_vars, main_vars, nb_vars, last_consumed, call, nbapi_thread,
                   topology_obj, allocated, observed>>

\* nbapi.py:276-281 quit
NBAPITask_quit(t) ==
    /\ threads[t].pc # "done"
    /\ ~threads[t].quitting
    /\ threads' = [threads EXCEPT ![t].quitting = TRUE]
    /\ UNCHANGED <<render_vars, main_vars, nb_vars, last_consumed, call, nbapi_thread,
                   topology_obj, allocated, observed>>

\* the module globals after a clear that left h behind
StoreHistory(h) ==
    /\ p_StationsToRadio' = h.s2r
    /\ p_StationsThatHaveMoved' = h.moved
    /\ p_RSSI_Measurements' = h.rssi

\* nbapi.py:240
NBAPITask_clear(t) ==
    /\ threads[t].pc = "clear"
    /\ StoreHistory(clear_all_signal_strength_measurements(
           p_StationsToRadio, p_StationsThatHaveMoved, p_RSSI_Measurements))
    /\ threads' = [threads EXCEPT ![t].pc = "while"]
    /\ UNCHANGED <<render_vars, main_vars, nb_json, nb_topology, nb_exc, heartbeat_count,
                   nb_fetched, last_consumed, call, nbapi_thread, topology_obj,
                   allocated, observed>>

\* a loop test that does not read the flag
NBAPITask_while_IgnoreFlag(t) ==
    /\ threads[t].pc = "while"
    /\ threads' = [threads EXCEPT ![t].pc = "get"]
    /\ UNCHANGED <<render_vars, main_vars, nb_vars, last_consumed, call, nbapi_thread,
                   topology_obj, allocated, observed>>

\* nbapi.py:241 while not self.quitting
NBAPITask_while(t) ==
    /\ threads[t].pc = "while"
    /\ threads' = [threads EXCEPT ![t].pc = IF threads[t].quitting THEN "done"
                                           ELSE "get"]
    /\ UNCHANGED <<render_vars, main_vars, nb_vars, last_consumed, call, nbapi_thread,
                   topology_obj, allocated, observed>>

\* nbapi.py:244-246: the response is not ok; the error is logged and the
\* loop goes on
NBAPITask_get_failed(t) ==
    /\ threads[t].pc = "get"
    /\ TotalRequests < MaxFetches
    /\ threads' = [threads EXCEPT ![t].pc = "while", ![t].failed = TRUE,
                                  ![t].requests = @ + 1]
    /\ UNCHANGED <<render_vars, main_vars, nb_vars, last_consumed, call, nbapi_thread,
                   topology_obj, allocated, observed>>

\* what the thread is after marshall_nbapi_blob left out behind: an exception
\* ends run, a topology without controller costs the request of line 227
NBAPITask_after(t, out) ==
    threads' = [threads EXCEPT
        ![t].pc = IF out.err # "" THEN "done" ELSE "while",
        ![t].requests = IF out.err = "" /\ out.topology.controller = 0
                        THEN @ + 2 ELSE @ + 1]

\* nbapi.py:244-253: the response is ok
NBAPITask_get_ok(t, blob) ==
    /\ threads[t].pc = "get"
    /\ TotalRequests < MaxFetches
    /\ nbapi_Assign(blob, nbapi_marshall_nbapi_blob(blob, p_StationsToRadio,
                               p_StationsThatHaveMoved, p_RSSI_Measurements))
    /\ NBAPITask_after(t, nbapi_marshall_nbapi_blob(blob, p_StationsToRadio,
                               p_StationsThatHaveMoved, p_RSSI_Measurements))
    /\ UNCHANGED <<render_vars, main_vars, last_consumed, call, nbapi_thread, topology_obj,
                   allocated, observed>>

NbapiTaskNext ==
    \/ NBAPITask_start
    \/ \E t \in 1..Len(threads) : NBAPITask_quit(t)
    \/ \E t \in 1..Len(threads) : NBAPITask_clear(t)
    \/ \E t \in 1..Len(threads) : NBAPITask_while(t)
    \/ \E t \in 1..Len(threads) : NBAPITask_get_failed(t)
    \/ \E t \in 1..Len(threads) : \E blob \in TaskBlobs : NBAPITask_get_ok(t, blob)

SpecNbapiTask == Init /\ [][NbapiTaskNext]_vars

(***************************************************************************)
(* C13.  RSSI series between resets.                                       *)
(***************************************************************************)
\* every series of old is a prefix of the series new keeps under the same
\* radio and station
SeriesKept(old, new) ==
    \A ruid \in DOMAIN old : \A mac \in DOMAIN old[ruid] :
        /\ ruid \in DOMAIN new
        /\ mac \in DOMAIN new[ruid]
        /\ Len(old[ruid][mac]) <= Len(new[ruid][mac])
        /\ SubSeq(new[ruid][mac], 1, Len(old[ruid][mac])) = old[ruid][mac]

\* the step is the reset of nbapi.py:240 by a thread that has just started
ResetStep ==
    \E t \in 1..Len(threads) :
        threads[t].pc = "clear" /\ threads'[t].pc = "while"

C13_MainSeriesAppendOnly ==
    [][SeriesKept(g_RSSI_Measurements, g_RSSI_Measurements')]_vars


(***************************************************************************)
(* C14.  One active poller.                                                *)
(***************************************************************************)
\* the threads whose run has not returned
Active == {t \in 1..Len(threads) : threads[t].pc # "done"}

\* thread t, told to quit, takes no step or only leaves its loop
Terminated(t) ==
    threads'[t] = threads[t] \/ threads'[t] = [threads[t] EXCEPT !.pc = "done"]

\* C14: a thread that connect_to_controller has told to quit takes no further
\* step other than leaving its loop: it sends no request, runs no resolver
\* pass, writes no history and publishes no topology once the new thread exists
C14_OldTaskTerminated ==
    [][\A t \in 1..Len(threads) : threads[t].quitting => Terminated(t)]_vars

\* C14: at most one poller thread is inside run at any time
C14_OnePollerActive == Cardinality(Active) <= 1

\* C14: no thread that was told to quit assigns g_Topology
C14_NoPublishAfterQuit ==
    [][\A t \in 1..Len(threads) :
          threads[t].quitting => ~(threads[t].pc = "assign" /\ threads'[t].pc = "while")]_vars

\* C14 (nbapi.py): a thread whose quit() was called takes no further step
\* other than leaving its loop
C14_NbapiQuitTerminates ==
    [][\A t \in 1..Len(threads) : threads[t].quitting => Terminated(t)]_vars

(***************************************************************************)
(* C15.  Publication of g_Topology.                                        *)
(***************************************************************************)
\* thread t assigns g_Topology in this step (main.py:830), after every pass
\* of its marshall_nbapi_blob call has run, and what it assigns is the object
\* that call built
PublishStep(t) ==
    /\ threads[t].pc = "assign"
    /\ threads'[t].pc = "while"
    /\ threads[t].json.type = "list" => threads[t].pass = LastPass
    /\ topology_obj' = threads[t].obj
    /\ g_Topology' = Task_result(t)

\* C15: what g_Topology refers to changes only in a step that assigns it the
\* Topology of a marshall_nbapi_blob call which has finished all its passes;
\* in every other step, the passes of a running call included, both the
\* reference and the object it refers to stay as they are
C15_PublishedOnlyWhenResolved ==
    [][(g_Topology' # g_Topology \/ topology_obj' # topology_obj)
          => \E t \in 1..Len(threads) : PublishStep(t)]_vars

\* update_graph has read a published, non-empty Topology and a later call is
\* in the middle of its passes
C15_ReadWhileResolving ==
    /\ observed = g_Topology
    /\ Len(observed.agents) > 0
    /\ \E t \in 1..Len(threads) :
          /\ threads[t].pc = "resolve"
          /\ threads[t].pass \in 1..(LastPass - 1)
          /\ threads[t].obj # topology_obj

(***************************************************************************)
(* C16.  A failed fetch.                                                   *)
(***************************************************************************)
\* C16: a thread of nbapi.py one of whose requests came back not ok sends no
\* further request and runs no further marshall_nbapi_blob
C16_NoFetchAfterFailure ==
    [][\A t \in 1..Len(threads) :
          threads[t].failed => /\ threads'[t].requests = threads[t].requests
                               /\ nb_fetched' = nb_fetched]_vars

\* C16: a thread of nbapi.py has left run once one of its requests came back
\* not ok
C16_FailedThreadIsDone ==
    \A t \in 1..Len(threads) : threads[t].failed => threads[t].pc = "done"

\* C16 (main.py): a thread one of whose requests came back not ok has left
\* run, and it sends no further request and enters no further
\* marshall_nbapi_blob
C16_MainFailedFetchEndsTask ==
    [][\A t \in 1..Len(threads) :
          threads'[t].failed => /\ threads'[t].pc = "done"
                                /\ threads[t].failed =>
                                      threads'[t].requests = threads[t].requests]_vars

\* a thread of main.py has left run because of a failed request after an
\* earlier one succeeded
C16_MainFailedAfterSuccess ==
    \E t \in 1..Len(threads) : threads[t].failed /\ threads[t].requests = 2

(***************************************************************************)
(* render_state.py: AgentRenderState.  An Agent argument is None or a      *)
(* record of its id and the length of its get_connected_stations(); the    *)
(* states are the names of EnumAgentRenderState.  render_calls keeps, for  *)
(* every id add_new_agent has entered, the station count it was entered    *)
(* with, whether every call since was made with that count, and the        *)
(* states get_state has returned for it.                                   *)
(***************************************************************************)
MaxStations == 2
MaxRenderCalls == 4

None == [id |-> "", stations |-> -1]
AgentArg(id, n) == [id |-> id, stations |-> n]
RenderAgents == {None} \cup {AgentArg(id, n) : id \in {"A1", "A2"}, n \in 0..MaxStations}

\* render_state.py:27-32 __get_initial_render_state
get_initial_render_state(agent) ==
    IF agent = None THEN "UNKNOWN"
    ELSE IF agent.stations = 0 THEN "SOLID"
    ELSE "OPEN"

\* an increment that leaves OPEN as it is
increment_state_NoBlink(states, agent) ==
    IF agent = None \/ agent.id \notin DOMAIN states THEN states
    ELSE DictPut(states, agent.id,
             IF agent.stations = 0 THEN "SOLID"
             ELSE IF states[agent.id] = "CLOSED" THEN "OPEN"
             ELSE IF states[agent.id] = "OPEN" THEN "OPEN"
             ELSE get_initial_render_state(agent))
\* render_state.py:69-89 __increment_state
increment_state(states, agent) ==
    IF agent = None \/ agent.id \notin DOMAIN states THEN states
    ELSE DictPut(states, agent.id,
             IF agent.stations = 0 THEN "SOLID"
             ELSE IF states[agent.id] = "OPEN" THEN "CLOSED"
             ELSE IF states[agent.id] = "CLOSED" THEN "OPEN"
             ELSE get_initial_render_state(agent))

\* the calls made for agent.id since it was entered, after one more call
\* made with this agent
NoteCall(agent, ret) ==
    IF agent = None \/ agent.id \notin DOMAIN render_calls THEN render_calls
    ELSE [render_calls EXCEPT
            ![agent.id].same = @ /\ agent.stations = render_calls[agent.id].stations,
            ![agent.id].returned = @ \o ret]

\* render_state.py:34-46 add_new_agent
add_new_agent(agent) ==
    /\ IF agent = None \/ agent.id \in DOMAIN agent_render_states
       THEN /\ agent_render_states' = agent_render_states
            /\ render_calls' = NoteCall(agent, <<>>)
       ELSE /\ agent_render_states' =
                   DictPut(agent_render_states, agent.id, get_initial_render_state(agent))
            /\ render_calls' = [k \in DOMAIN render_calls \cup {agent.id} |->
                                  IF k = agent.id
                                  THEN [stations |-> agent.stations, same |-> TRUE,
                                        returned |-> <<>>]
                                  ELSE render_calls[k]]
    /\ UNCHANGED <<main_vars, nb_vars, last_consumed, call, task_vars, render_ret>>

\* render_state.py:48-66 get_state
get_state(agent) ==
    /\ agent # None /\ agent.id \in DOMAIN render_calls
          => Len(render_calls[agent.id].returned) < MaxRenderCalls
    /\ render_ret' = IF agent # None /\ agent.id \in DOMAIN agent_render_states
                     THEN agent_render_states[agent.id]
                     ELSE "UNKNOWN"
    /\ agent_render_states' = increment_state(agent_render_states, agent)
    /\ render_calls' = NoteCall(agent, <<render_ret'>>)
    /\ UNCHANGED <<main_vars, nb_vars, last_consumed, call, task_vars>>

RenderNext ==
    \/ \E agent \in RenderAgents : add_new_agent(agent)
    \/ \E agent \in RenderAgents : get_state(agent)

SpecRender == Init /\ [][RenderNext]_vars

(***************************************************************************)
(* C17.  The render states get_state returns.                              *)
(***************************************************************************)
\* the k-th state of the blink sequence of an agent with n stations
Blink(n, k) == IF n = 0 THEN "SOLID" ELSE IF k % 2 = 1 THEN "OPEN" ELSE "CLOSED"

\* C17: for every agent id that add_new_agent has entered and for which every
\* call since was made with the station count it was entered with, the states
\* get_state has returned are all SOLID when that count is 0 and are OPEN,
\* CLOSED, OPEN, ... in turn, starting with OPEN, when it is not
C17_BlinkSequence ==
    \A id \in DOMAIN render_calls :
        render_calls[id].same =>
            \A k \in 1..Len(render_calls[id].returned) :
                render_calls[id].returned[k] = Blink(render_calls[id].stations, k)

\* an agent with stations has been asked four times with an unchanged list,
\* and one without has been asked twice
C17_Witness ==
    \E a, b \in DOMAIN render_calls :
        /\ render_calls[a].same /\ render_calls[a].stations > 0
        /\ Len(render_calls[a].returned) = MaxRenderCalls
        /\ render_calls[b].same /\ render_calls[b].stations = 0
        /\ Len(render_calls[b].returned) >= 2

\* C17 (without the premise): the states returned for an id follow the
\* sequence of the count it was entered with
C17_BlinkSequenceAnyCalls ==
    \A id \in DOMAIN render_calls :
        \A k \in 1..Len(render_calls[id].returned) :
            render_calls[id].returned[k] = Blink(render_calls[id].stations, k)

(***************************************************************************)
(* path_parser.py.  A path string is modelled by what path.split('.')      *)
(* makes of it, the sequence of its tokens: "" is <<"">> and "Device.5."   *)
(* is <<"Device", "5", "">>.  Positions are counted from 1 here and from 0 *)
(* in the source.                                                          *)
(***************************************************************************)
MaxTokens == 4

PathTokens == {"", "Device", "Radio", "5"}
PathKeys == {"", "Device", "Radio"}
TestPath == <<"Device", "WiFi", "DataElements", "Network", "Device", "5", "">>
SplitPaths ==
    {TestPath} \cup UNION {[1..n -> PathTokens] : n \in 1..MaxTokens}

\* path_parser.py:3-4 __token_is_device
token_is_device(token) == token = "Device"

\* a parser that skips no token
should_skip_device_token_Never(token, idx) == FALSE
\* path_parser.py:6-7 __should_skip_device_token
should_skip_device_token(token, idx) == token_is_device(token) /\ idx = 0

\* path_parser.py:18-25: the loop from position token_idx on
RECURSIVE ScanTokens(_, _, _)
ScanTokens(split_path, key, token_idx) ==
    IF token_idx >= Len(split_path) THEN ""
    ELSE IF split_path[token_idx + 1] # key
    THEN ScanTokens(split_path, key, token_idx + 1)
    ELSE IF should_skip_device_token(split_path[token_idx + 1], token_idx)
    THEN ScanTokens(split_path, key, token_idx + 1)
    ELSE IF Len(split_path) > token_idx + 1
    THEN split_path[token_idx + 2]
    ELSE ScanTokens(split_path, key, token_idx + 1)

\* path_parser.py:9-25 parse_index_from_path_by_key
parse_index_from_path_by_key(split_path, key) == ScanTokens(split_path, key, 0)

InitPathParser ==
    /\ InitModules
    /\ \E split_path \in SplitPaths, key \in PathKeys :
          call = [op |-> "path", path |-> split_path, key |-> key, ret |-> ""]

apply_parse_index_from_path_by_key ==
    /\ call.op = "path"
    /\ call' = [call EXCEPT !.op = "parse_index_from_path_by_key",
                            !.ret = parse_index_from_path_by_key(call.path, call.key)]
    /\ UNCHANGED <<main_vars, nb_vars, last_consumed, task_vars, render_vars>>

SpecPathParser == InitPathParser /\ [][apply_parse_index_from_path_by_key]_vars

(***************************************************************************)
(* C18.  The index that follows a keyword.                                 *)
(***************************************************************************)
\* the token after the first of the positions occ, "" when there is none or
\* when it is the last token
TokenAfterFirst(split_path, occ) ==
    IF occ = {} THEN ""
    ELSE LET first == CHOOSE i \in occ : \A j \in occ : i <= j
         IN  IF first = Len(split_path) THEN "" ELSE split_path[first + 1]

\* C18 as stated: the result is the token after the first occurrence of key
\* that is not at the first position, "" when there is no such occurrence or
\* it is the last token
C18_SkipsFirstPosition ==
    call.op = "parse_index_from_path_by_key" =>
        call.ret = TokenAfterFirst(call.path,
                       {i \in 2..Len(call.path) : call.path[i] = call.key})

\* C18, amended: the result is the token after the first occurrence of key,
\* where the occurrence at the first position is skipped only for the key
\* "Device"; "" when there is no such occurrence or it is the last token
C18_SkipsLeadingDevice ==
    call.op = "parse_index_from_path_by_key" =>
        call.ret = TokenAfterFirst(call.path,
                       {i \in 1..Len(call.path) :
                           call.path[i] = call.key /\ ~(i = 1 /\ call.key = "Device")})

\* the path of tests.py:159-161 has been parsed for "Device" and gave "5"
C18_Witness ==
    /\ call.op = "parse_index_from_path_by_key"
    /\ call.path = TestPath
    /\ call.key = "Device"
    /\ call.ret = "5"

\* C18: the empty path gives "" for every key
C18_EmptyPath ==
    call.op = "parse_index_from_path_by_key" /\ call.path = <<"">> => call.ret = ""

(***************************************************************************)
(* topology.py:290-298 get_ssid, called by update_prplmesh_ssid            *)
(* (main.py:897-899) on g_Topology.  err names the exception a call        *)
(* raised, "" when it returned ret.                                        *)
(***************************************************************************)
\* topology.py:297: self.controller.get_radios()[0].get_bsses()[0].params["SSID"]
FirstSSID(t, radios) ==
    IF Len(radios) = 0 THEN [ret |-> "", err |-> "IndexError"]
    ELSE IF Len(t.radios[radios[1]].bsses) = 0 THEN [ret |-> "", err |-> "IndexError"]
    ELSE IF "SSID" \notin t.json[t.bsses[t.radios[radios[1]].bsses[1]].rec].parameters.keys
    THEN [ret |-> "", err |-> "KeyError"]
    ELSE [ret |-> t.json[t.bsses[t.radios[radios[1]].bsses[1]].rec].parameters.SSID,
          err |-> ""]

\* topology.py:290-298 get_ssid
Topology_get_ssid(t) ==
    IF t.controller # 0
    THEN FirstSSID(t, t.agents[t.controller].radios)
    ELSE [ret |-> "No SSID found", err |-> ""]

\* dumps with and without a controller, a radio, a BSS and an SSID
SsidBlobs ==
    {JsonOther("dict"),
     JsonList(<<NetworkRecord("A2"), DeviceRecord("1", "A1")>>),
     JsonList(<<NetworkRecord("A1"), DeviceRecord("1", "A1")>>),
     JsonList(<<NetworkRecord("A1"), DeviceRecord("1", "A1"), RadioRecord("1", "1", "R1")>>),
     JsonList(<<NetworkRecord("A1"), DeviceRecord("1", "A1"), RadioRecord("1", "1", "R1"),
                [BSSRecord("1", "1", "1", "B1") EXCEPT !.parameters.keys = {"BSSID"}]>>),
     JsonList(Infra)}

\* main.py:897-899 update_prplmesh_ssid; call keeps the Topology it read
update_prplmesh_ssid ==
    /\ call' = [op |-> "update_prplmesh_ssid", topology |-> g_Topology,
                ret |-> Topology_get_ssid(g_Topology).ret,
                err |-> Topology_get_ssid(g_Topology).err]
    /\ UNCHANGED <<main_vars, nb_vars, last_consumed, task_vars, render_vars>>

SsidNext ==
    \/ \E blob \in SsidBlobs : main_Cycle(blob)
    \/ update_prplmesh_ssid

SpecSsid == Init /\ [][SsidNext]_vars

(***************************************************************************)
(* C19.  get_ssid.                                                         *)
(***************************************************************************)
\* the controller of t has a first radio with a first BSS
HasFirstBSS(t) ==
    /\ t.controller # 0
    /\ Len(t.agents[t.controller].radios) > 0
    /\ Len(t.radios[t.agents[t.controller].radios[1]].bsses) > 0

\* C19: get_ssid never raises: without a controller, with a controller that
\* has no radio and with a first radio that has no BSS it returns the
\* sentinel "No SSID found"
C19_SentinelInsteadOfRaising ==
    call.op = "update_prplmesh_ssid" =>
        /\ call.err = ""
        /\ ~HasFirstBSS(call.topology) => call.ret = "No SSID found"

\* C19: get_ssid returns the sentinel when the topology has no controller
C19_NoControllerGivesSentinel ==
    call.op = "update_prplmesh_ssid" /\ call.topology.controller = 0
        => call.err = "" /\ call.ret = "No SSID found"

\* C19: get_ssid returns the SSID of the first BSS of the controller's first
\* radio when that BSS carries one
C19_FirstSSID ==
    call.op = "update_prplmesh_ssid" /\ call.err = "" /\ HasFirstBSS(call.topology)
        => call.ret = "prplMesh"

\* C19: get_ssid raises only for a controller without radios, a first radio
\* without BSS, or a first BSS without SSID
C19_RaisesOnlyWithController ==
    call.op = "update_prplmesh_ssid" /\ call.err # ""
        => /\ call.topology.controller # 0
           /\ call.err = IF HasFirstBSS(call.topology) THEN "KeyError" ELSE "IndexError"


(***************************************************************************)
(* C20.  What the reset of a new connection clears.                        *)
(***************************************************************************)
\* C20: the reset a starting NBAPITask performs (nbapi.py:240) empties the
\* RSSI series and leaves the station-to-radio map and the list of moved
\* stations as they were
C20_ResetClearsSeriesOnly ==
    [][ResetStep => /\ p_RSSI_Measurements' = EmptyDictOfDict
                    /\ p_StationsToRadio' = p_StationsToRadio
                    /\ p_StationsThatHaveMoved' = p_StationsThatHaveMoved]_vars

\* a second thread has made its reset while the map and the moved list were
\* not empty, and no cycle has run since
C20_ResetWithHistory ==
    /\ Len(threads) = 2
    /\ threads[2].pc = "while"
    /\ threads[2].requests = 0
    /\ p_RSSI_Measurements = EmptyDictOfDict
    /\ DOMAIN p_StationsToRadio # {}
    /\ p_StationsThatHaveMoved # <<>>

(***************************************************************************)
(* easymesh.py: the relationship-forming operations applied to the objects *)
(* of one small graph, in any order, some of them repeatedly.  call.graph  *)
(* is the graph after call.adds operations.                                *)
(***************************************************************************)
MaxAdds == 3

NeighborRecord(d, n, k, id) ==
    Entry(DevicePath(d) \o <<"Interface", n, "Neighbor", k>>,
          [NoParams EXCEPT !.keys = {"ID"}, !.ID = id])

\* two agents, two interfaces, a neighbor, a radio, a BSS and a station, as
\* their constructors leave them; interface 1 belongs to agent 1
RelationRecords ==
    <<DeviceRecord("1", "A1"), DeviceRecord("2", "A2"),
      InterfaceRecord("1", "1", "E1", MT_Int(1)),
      InterfaceRecord("2", "1", "E2", MT_Int(1)),
      NeighborRecord("1", "1", "1", "N1"),
      RadioRecord("1", "1", "R1"), BSSRecord("1", "1", "1", "B1"), S1onR1(-40)>>
RelationGraph ==
    Interface_set_parent_agent(
        Station__init__(BSS__init__(Radio__init__(Neighbor__init__(
            Interface__init__(Interface__init__(
                Agent__init__(Agent__init__(EmptyGraph(RelationRecords), 1), 2),
                3), 4), 5), 6), 7), 8),
        1, 1)

InitRelations ==
    /\ InitModules
    /\ call = [op |-> "graph", graph |-> RelationGraph, adds |-> 0]

\* the graph after the operation named op
Relate(op, g) ==
    CASE op = "Agent.add_radio" -> Agent_add_radio(g, 1, 1)
      [] op = "Agent.add_interface" -> Agent_add_interface(g, 1, 1)
      [] op = "Agent.add_child" -> Agent_add_child(g, 1, 2)
      [] op = "Interface.add_child" -> Interface_add_child(g, 1, 2)
      [] op = "Interface.add_neighbor" -> Interface_add_neighbor(g, 1, 1)
      [] op = "Interface.add_connected_station" -> Interface_add_connected_station(g, 1, 1)
      [] op = "BSS.add_connected_station" -> BSS_add_connected_station(g, 1, 1)
      [] op = "Radio.add_bss" -> Radio_add_bss(g, 1, 1)

RelationOps ==
    {"Agent.add_radio", "Agent.add_interface", "Agent.add_child", "Interface.add_child",
     "Interface.add_neighbor", "Interface.add_connected_station",
     "BSS.add_connected_station", "Radio.add_bss"}

\* one call of a relationship-forming operation
relate(op) ==
    /\ call.adds < MaxAdds
    /\ call' = [op |-> op, graph |-> Relate(op, call.graph), adds |-> call.adds + 1]
    /\ UNCHANGED <<main_vars, nb_vars, last_consumed, task_vars, render_vars>>

RelationsNext == \E op \in RelationOps : relate(op)

SpecRelations == InitRelations /\ [][RelationsNext]_vars

(***************************************************************************)
(* C21.  Adding an entity twice.                                           *)
(***************************************************************************)
\* no entry of the list s occurs twice in it
NoRepeat(s) == \A i, j \in 1..Len(s) : s[i] = s[j] => i = j

\* the owner lists of g and the lists mirrored in the attribute bags
OwnerLists(g) ==
    {g.agents[1].radios, g.agents[1].interfaces, g.agents[1].children,
     g.agents[1].connected_stations, g.ifaces[1].children, g.ifaces[1].neighbors,
     g.ifaces[1].connected_stations, g.bsses[1].connected_stations, g.radios[1].bsses}
MirroredLists(g) ==
    {g.P[1].Radios, g.P[1].Interfaces, g.P[3].children, g.P[3].neighbors,
     g.P[3].STAs, g.P[7].STAs, g.P[6].BSS}

\* C21: however often an entity is added, the owner's list and the list
\* mirrored in the attribute bag hold it once
C21_AddIsIdempotent ==
    /\ \A s \in OwnerLists(call.graph) : NoRepeat(s)
    /\ \A s \in MirroredLists(call.graph) : NoRepeat(s)

\* C21: the list mirrored in the attribute bag holds as many entries as the
\* owner's list
C21_MirrorSameLength ==
    /\ Len(call.graph.P[1].Radios) = Len(call.graph.agents[1].radios)
    /\ Len(call.graph.P[1].Interfaces) = Len(call.graph.agents[1].interfaces)
    /\ Len(call.graph.P[3].children) = Len(call.graph.ifaces[1].children)
    /\ Len(call.graph.P[3].neighbors) = Len(call.graph.ifaces[1].neighbors)
    /\ Len(call.graph.P[3].STAs) = Len(call.graph.ifaces[1].connected_stations)
    /\ Len(call.graph.P[7].STAs) = Len(call.graph.bsses[1].connected_stations)
    /\ Len(call.graph.P[6].BSS) = Len(call.graph.radios[1].bsses)

\* C21: a first add leaves a single entry
C21_FirstAddSingle ==
    call.adds = 1 => /\ \A s \in OwnerLists(call.graph) : Len(s) <= 1
                     /\ \A s \in MirroredLists(call.graph) : Len(s) <= 1

(***************************************************************************)
(* Dumps whose records all carry their path and the parameters their own   *)
(* pass reads, and in which some record has nothing to be joined with.     *)
(***************************************************************************)
JoinLists ==
    {Infra \o <<S1onR1(-40)>>,
     \* a STA under a BSS of a radio whose ID is no interface's MAC
     <<NetworkRecord("A1"), DeviceRecord("1", "A1"), RadioRecord("1", "1", "R1"),
       BSSRecord("1", "1", "1", "B1"), S1onR1(-40)>>,
     \* a BSS of such a radio, without stations
     <<NetworkRecord("A1"), DeviceRecord("1", "A1"), RadioRecord("1", "1", "R1"),
       BSSRecord("1", "1", "1", "B1")>>,
     \* an Ethernet link while the controller has no Ethernet interface
     <<NetworkRecord("A1"), DeviceRecord("1", "A1"), DeviceRecord("2", "A2"),
       InterfaceRecord("2", "1", "E2", MT_Int(1)), EthernetLink("2", "E2")>>,
     \* an Ethernet link while no device carries the ControllerID
     <<NetworkRecord("A3"), DeviceRecord("1", "A1"), DeviceRecord("2", "A2"),
       InterfaceRecord("1", "1", "E1", MT_Int(1)),
       InterfaceRecord("2", "1", "E2", MT_Int(1)), EthernetLink("2", "E2")>>,
     \* an Ethernet link that names no interface
     LinkInfra \o <<EthernetLink("2", "N1")>>,
     \* a Wi-Fi link whose parent MAC is no interface's
     LinkInfra \o <<WiFiLink("2", "M2", "N1")>>,
     \* a STA under a BSS path no BSS record has
     <<NetworkRecord("A1"), DeviceRecord("1", "A1"), RadioRecord("1", "1", "R1"),
       S1onR1(-40)>>,
     \* a radio of a device no Device record has
     <<NetworkRecord("A1"), DeviceRecord("1", "A1"), RadioRecord("2", "1", "R2")>>}

JoinBlobs == {JsonList(records) : records \in JoinLists}

MainJoinsNext == \E blob \in JoinBlobs : main_Cycle(blob)
NbapiJoinsNext == \E blob \in JoinBlobs : nbapi_Cycle(blob)

SpecMainJoins == Init /\ [][MainJoinsNext]_vars
SpecNbapiJoins == Init /\ [][NbapiJoinsNext]_vars

(***************************************************************************)
(* C22.  Unresolvable joins.                                               *)
(***************************************************************************)
\* C22: marshall_nbapi_blob of main.py raises for none of these dumps
C22_JoinFailureNeverRaises == main_exc = ""

\* C22 (nbapi.py): marshall_nbapi_blob of nbapi.py raises for none of them
C22_NbapiJoinFailureNeverRaises == nb_exc = ""

\* C22: main.py raises for no dump other than those with a STA under a BSS
\* without interface and those with an Ethernet link and no controller
\* backhaul interface
C22_RaisesOnlyForTheTwoJoins ==
    main_exc # "" =>
        /\ main_exc = "AttributeError"
        /\ \/ \E i \in 1..Len(nbapi_json.items) :
                 MatchesIndexed(nbapi_json.items[i].path, "STA")
           \/ \E i \in 1..Len(nbapi_json.items) :
                 MatchesBackhaul(nbapi_json.items[i].path)

(***************************************************************************)
(* Dumps with SteerEvent records before and after the STA records.         *)
(***************************************************************************)
SteerRecord(d, k, device_id, result) ==
    Entry(DevicePath(d) \o <<"MultiAPDevice", "SteerEvent", k>>,
          [NoParams EXCEPT !.keys = {"DeviceId", "Result"},
                           !.DeviceId = device_id, !.Result = result])

SteerLists ==
    {Infra \o <<S1onR1(-40), S2onR1(-55)>>,
     Infra \o <<S1onR1(-40), S2onR1(-55), SteerRecord("1", "1", "S1", "Success")>>,
     Infra \o <<SteerRecord("1", "1", "S1", "Success"), S1onR1(-40), S2onR1(-55)>>,
     Infra \o <<S1onR1(-40), SteerRecord("1", "1", "S2", "Success"), S2onR1(-55)>>,
     Infra \o <<S1onR1(-40), S2onR1(-55), SteerRecord("1", "1", "S1", "Fail")>>,
     Infra \o <<S1onR1(-40), S2onR1(-55), SteerRecord("1", "1", "S1", "Fail"),
                SteerRecord("1", "2", "S2", "Success")>>,
     Infra \o <<S1onR1(-40), SteerRecord("1", "1", "S2", "Success")>>,
     Infra \o <<S1onR1(-40), S2onR1(-55), SteerRecord("1", "1", "S1", "Success"),
                SteerRecord("1", "2", "S2", "Success")>>}

SteerBlobs == {JsonList(records) : records \in SteerLists}

MainSteerNext == \E blob \in SteerBlobs : main_Cycle(blob)
NbapiSteerNext == \E blob \in SteerBlobs : nbapi_Cycle(blob)

SpecMainSteer == Init /\ [][MainSteerNext]_vars
SpecNbapiSteer == Init /\ [][NbapiSteerNext]_vars

(***************************************************************************)
(* C23.  Steering correlation.                                             *)
(***************************************************************************)
\* the dump holds a successful SteerEvent for mac
SteeredIn(json, mac) ==
    \E i \in 1..Len(json) :
        /\ MatchesIndexed(json[i].path, "SteerEvent")
        /\ json[i].parameters.Result = "Success"
        /\ json[i].parameters.DeviceId = mac

\* every station of t is steered exactly when the dump t was built from holds
\* a successful SteerEvent for its MAC
SteeredIffEvent(t) ==
    \A s \in 1..Len(t.stas) :
        t.stas[s].is_steered <=> SteeredIn(t.json, Station_get_mac(t, s))

\* C23: after a cycle of nbapi.py, a station is steered if and only if the
\* dump holds a SteerEvent with Result "Success" and its MAC as DeviceId
C23_SteeredIffEvent == heartbeat_count > 0 /\ nb_exc = "" => SteeredIffEvent(nb_topology)

\* C23 (main.py): the same after a cycle of main.py
C23_MainSteeredIffEvent == main_fetched # <<>> /\ main_exc = "" => SteeredIffEvent(g_Topology)

\* main.py has resolved a dump in which the successful SteerEvent of a
\* station precedes its STA record, and another in which it follows it
C23_MainSteeredWitness ==
    /\ Len(main_fetched) >= 2
    /\ \E s \in 1..Len(g_Topology.stas) : g_Topology.stas[s].is_steered
    /\ \E s \in 1..Len(g_Topology.stas) : ~g_Topology.stas[s].is_steered

\* C23 (nbapi.py): no station is ever steered
C23_NbapiNeverSteered ==
    heartbeat_count > 0 /\ nb_exc = "" =>
        \A s \in 1..Len(nb_topology.stas) : ~nb_topology.stas[s].is_steered

(***************************************************************************)
(* Dumps in which the controller A1 has the Ethernet interfaces E1 and E2  *)
(* (Interface.1 and Interface.3) and the wireless M1, with Neighbor        *)
(* records under some of them, and device A2 reports an Ethernet link of   *)
(* its interface E3.                                                       *)
(***************************************************************************)
BackhaulInfra ==
    <<NetworkRecord("A1"), DeviceRecord("1", "A1"), DeviceRecord("2", "A2"),
      InterfaceRecord("1", "1", "E1", MT_Int(1)),
      InterfaceRecord("1", "2", "M1", MT_Int(256)),
      InterfaceRecord("1", "3", "E2", MT_Int(0)),
      InterfaceRecord("2", "1", "E3", MT_Int(1))>>

NeighborLists ==
    {<<>>,
     <<NeighborRecord("1", "1", "1", "N1")>>,
     <<NeighborRecord("1", "3", "1", "N1")>>,
     <<NeighborRecord("1", "2", "1", "N1")>>,
     <<NeighborRecord("1", "1", "1", "N1"), NeighborRecord("1", "3", "1", "N2")>>,
     <<NeighborRecord("1", "3", "1", "N2"), NeighborRecord("1", "1", "1", "N1")>>,
     <<NeighborRecord("1", "2", "1", "N1"), NeighborRecord("1", "3", "1", "N2")>>,
     <<NeighborRecord("2", "1", "1", "N1")>>}

BackhaulBlobs ==
    {JsonList(BackhaulInfra \o nbrs \o <<EthernetLink("2", "E3")>>) : nbrs \in NeighborLists}

MainBackhaulNext == \E blob \in BackhaulBlobs : main_Cycle(blob)
NbapiBackhaulNext == \E blob \in BackhaulBlobs : nbapi_Cycle(blob)

SpecMainBackhaul == Init /\ [][MainBackhaulNext]_vars
SpecNbapiBackhaul == Init /\ [][NbapiBackhaulNext]_vars

(***************************************************************************)
(* C24.  The controller's backhaul interface.                              *)
(***************************************************************************)
\* the positions in the controller's interface list of the interfaces with
\* media type code <= 1, and of those among them with a neighbor
EthernetAt(t) ==
    {k \in 1..Len(t.agents[t.controller].interfaces) :
        MediaTypeLE1(t.json[t.ifaces[t.agents[t.controller].interfaces[k]].rec]
                         .parameters.MediaType) = "yes"}
EthernetWithNeighborAt(t) ==
    {k \in EthernetAt(t) :
        Len(t.ifaces[t.agents[t.controller].interfaces[k]].neighbors) > 0}

\* the interface at the least position of S in the controller's list
FirstAt(t, S) ==
    t.agents[t.controller].interfaces[CHOOSE k \in S : \A j \in S : k <= j]

\* the first Ethernet interface of the controller with a neighbor, without
\* one the first Ethernet interface, 0 when there is none or no controller
FirstQualifying(t) ==
    IF t.controller = 0 THEN 0
    ELSE IF EthernetWithNeighborAt(t) # {} THEN FirstAt(t, EthernetWithNeighborAt(t))
    ELSE IF EthernetAt(t) # {} THEN FirstAt(t, EthernetAt(t))
    ELSE 0

\* C24: the controller backhaul interface main.py has chosen is the first
\* controller interface with media type code <= 1 and a neighbor, and
\* without such an interface the first with media type code <= 1
C24_FirstQualifying ==
    main_fetched # <<>> /\ main_exc = "" =>
        main_BackhaulInterface(nbapi_json, g_controller_id) = FirstQualifying(g_Topology)

\* C24 (nbapi.py): the interface E3 of the Ethernet link is a child of that
\* interface
C24_NbapiLinksAtFirstQualifying ==
    heartbeat_count > 0 /\ nb_exc = "" =>
        \A i \in 1..Len(nb_topology.ifaces) :
            Interface_get_mac(nb_topology, i) = "E3"
                => i \in ChildrenOf(nb_topology, {FirstQualifying(nb_topology)})

\* C24 (main.py): the chosen interface is the controller interface under
\* which the last Neighbor record of an Ethernet controller interface sits,
\* and without such a record the first Ethernet interface
C24_MainLastNeighbor ==
    main_fetched # <<>> /\ main_exc = "" =>
        LET t == g_Topology
            marks == {i \in 1..Len(t.json) :
                        /\ MatchesIndexed(t.json[i].path, "Neighbor")
                        /\ \E k \in EthernetAt(t) :
                              startswith(t.json[i].path,
                                  t.ifaces[t.agents[t.controller].interfaces[k]].path)}
            last == CHOOSE i \in marks : \A j \in marks : j <= i
        IN  main_BackhaulInterface(nbapi_json, g_controller_id) =
               IF marks = {} THEN FirstQualifying(t)
               ELSE CHOOSE f \in 1..Len(t.ifaces) :
                       /\ startswith(t.json[last].path, t.ifaces[f].path)
                       /\ t.ifaces[f].parentAgent = t.controller

\* C24 (nbapi.py): the Ethernet link hangs E3 under the first Ethernet
\* interface of the controller, whatever the neighbors
C24_NbapiLinksAtFirstEthernet ==
    heartbeat_count > 0 /\ nb_exc = "" =>
        \A i \in 1..Len(nb_topology.ifaces) :
            Interface_get_mac(nb_topology, i) = "E3"
                => i \in ChildrenOf(nb_topology, {FirstAt(nb_topology, EthernetAt(nb_topology))})

(***************************************************************************)
(* Dumps in which agent A2 hangs with its wireless interface M2 under the  *)
(* controller's radio interface R1, and the BSS of that radio reports the  *)
(* stations S1 and M2; the Backhaul record stands before, between or after *)
(* the STA records, or is missing.                                         *)
(***************************************************************************)
ExclusionInfra ==
    <<NetworkRecord("A1"), DeviceRecord("1", "A1"), DeviceRecord("2", "A2"),
      InterfaceRecord("1", "1", "E1", MT_Int(1)),
      InterfaceRecord("1", "2", "R1", MT_Int(256)),
      InterfaceRecord("2", "2", "M2", MT_Int(256)),
      RadioRecord("1", "1", "R1"), BSSRecord("1", "1", "1", "R1")>>

ExclusionLists ==
    LET s1 == STARecord("1", "1", "1", "1", "S1", -40)
        m2 == STARecord("1", "1", "1", "2", "M2", -50)
        link == WiFiLink("2", "M2", "R1")
    IN  {<<s1, m2>>, <<link, s1, m2>>, <<s1, link, m2>>, <<s1, m2, link>>,
         <<m2, link>>, <<link, m2>>, <<link, s1>>, <<s1, link>>}

ExclusionBlobs == {JsonList(ExclusionInfra \o l) : l \in ExclusionLists}

MainExclusionNext == \E blob \in ExclusionBlobs : main_Cycle(blob)
NbapiExclusionNext == \E blob \in ExclusionBlobs : nbapi_Cycle(blob)

SpecMainExclusion == Init /\ [][MainExclusionNext]_vars
SpecNbapiExclusion == Init /\ [][NbapiExclusionNext]_vars

(***************************************************************************)
(* C25.  Stations that are backhaul interfaces.                            *)
(***************************************************************************)
\* every station of every BSS is in the station lists of the BSS's
\* interface and of that interface's agent exactly if its MAC is not the
\* MAC of a child interface of the agent
MirroredIffNoChild(t) ==
    \A b \in 1..Len(t.bsses) : \A k \in 1..Len(t.bsses[b].connected_stations) :
        LET s == t.bsses[b].connected_stations[k]
            i == t.bsses[b].interface
            a == t.ifaces[i].parentAgent
        IN  /\ InSeq(s, t.ifaces[i].connected_stations)
                <=> ~Agent_is_child(t, a, Station_get_mac(t, s))
            /\ InSeq(s, t.agents[a].connected_stations)
                <=> ~Agent_is_child(t, a, Station_get_mac(t, s))

\* a BSS holds a station whose MAC is a child interface of the agent
HasBackhaulStation(t) ==
    \E b \in 1..Len(t.bsses) : \E k \in 1..Len(t.bsses[b].connected_stations) :
        Agent_is_child(t, t.ifaces[t.bsses[b].interface].parentAgent,
                       Station_get_mac(t, t.bsses[b].connected_stations[k]))

\* C25: in the Topology nbapi.py resolved, a station under a BSS is in the
\* station lists of the correlated interface and of its agent if and only
\* if its MAC is not the MAC of a child interface of that agent
C25_MirroredIffNoChild ==
    heartbeat_count > 0 /\ nb_exc = "" => MirroredIffNoChild(nb_topology)

\* C25 (main.py): the same in the Topology main.py resolved
C25_MainMirroredIffNoChild ==
    main_fetched # <<>> /\ main_exc = "" => MirroredIffNoChild(g_Topology)

C25_MainWitness ==
    /\ main_fetched # <<>> /\ main_exc = ""
    /\ HasBackhaulStation(g_Topology)
    /\ Len(g_Topology.agents[1].connected_stations) = 1

\* C25 (nbapi.py): the equivalence holds when the Backhaul record stands
\* before every STA record of the dump
C25_NbapiLinkFirst ==
    (/\ heartbeat_count > 0 /\ nb_exc = ""
     /\ \A j \in RecordsOf(nb_json, "STA") :
           \E k \in 1..(j - 1) : nb_json.items[k].path[Len(nb_json.items[k].path)] = "Backhaul")
        => MirroredIffNoChild(nb_topology)

(***************************************************************************)
(* Dumps with Ethernet links only: the agents A2 and A3 have their         *)
(* Ethernet interfaces E2 (Interface.2) and E3 (Interface.1), and the link *)
(* of an interface is reported by its own or by another device.            *)
(***************************************************************************)
EthernetInfra ==
    <<NetworkRecord("A1"), DeviceRecord("1", "A1"), DeviceRecord("2", "A2"),
      DeviceRecord("3", "A3"),
      InterfaceRecord("1", "1", "E1", MT_Int(1)),
      InterfaceRecord("1", "2", "M1", MT_Int(256)),
      InterfaceRecord("2", "1", "M2", MT_Int(256)),
      InterfaceRecord("2", "2", "E2", MT_Int(1)),
      InterfaceRecord("3", "1", "E3", MT_Int(1))>>

EthernetLists ==
    {<<>>,
     <<BackhaulRecord("1", "None", "", "")>>,
     <<EthernetLink("2", "E2")>>,
     <<EthernetLink("3", "E3")>>,
     <<EthernetLink("2", "E2"), EthernetLink("3", "E3")>>,
     <<EthernetLink("2", "E3")>>,
     <<EthernetLink("3", "E2")>>,
     <<EthernetLink("1", "E1")>>}

EthernetBlobs == {JsonList(EthernetInfra \o links) : links \in EthernetLists}

MainEthernetNext == \E blob \in EthernetBlobs : main_Cycle(blob)
NbapiEthernetNext == \E blob \in EthernetBlobs : nbapi_Cycle(blob)

SpecMainEthernet == Init /\ [][MainEthernetNext]_vars
SpecNbapiEthernet == Init /\ [][NbapiEthernetNext]_vars

(***************************************************************************)
(* C26.  Ethernet backhaul links.                                          *)
(***************************************************************************)
\* the MACAddress values of the Ethernet Backhaul records of a record list
EthernetMACs(json) ==
    {json[k].parameters.MACAddress :
        k \in {j \in 1..Len(json) :
                  /\ json[j].path[Len(json[j].path)] = "Backhaul"
                  /\ json[j].parameters.LinkType = "Ethernet"}}

\* the children of backhaul interface cbi are the interfaces the Ethernet
\* records name, their agents are children of the controller agent, and no
\* other interface or agent is a child of anything
EthernetLinked(t, cbi) ==
    /\ \A i \in 1..Len(t.ifaces) :
          /\ InSeq(i, t.ifaces[cbi].children)
                <=> Interface_get_mac(t, i) \in EthernetMACs(t.json)
          /\ Interface_get_mac(t, i) \in EthernetMACs(t.json)
                => InSeq(t.ifaces[i].parentAgent, t.agents[t.controller].children)
          /\ i # cbi => t.ifaces[i].children = <<>>
    /\ \A a \in 1..Len(t.agents) :
          InSeq(a, t.agents[t.controller].children)
             => \E i \in 1..Len(t.ifaces) :
                   /\ t.ifaces[i].parentAgent = a
                   /\ Interface_get_mac(t, i) \in EthernetMACs(t.json)

\* C26: after nbapi.py resolved a dump with Ethernet links, exactly the
\* interfaces whose MAC is the MACAddress of an Ethernet Backhaul record are
\* children of the controller's backhaul interface and their agents
\* children of the controller agent
C26_EthernetLinked ==
    heartbeat_count > 0 /\ nb_exc = "" =>
        EthernetLinked(nb_topology, FirstAt(nb_topology, EthernetAt(nb_topology)))

\* C26 (main.py): the same after main.py resolved the dump
C26_MainEthernetLinked ==
    main_fetched # <<>> /\ main_exc = "" =>
        EthernetLinked(g_Topology, main_BackhaulInterface(nbapi_json, g_controller_id))

\* main.py linked the interface of another device than the reporting one
C26_MainWitness ==
    /\ main_fetched # <<>> /\ main_exc = ""
    /\ \E i \in 1..Len(g_Topology.ifaces) :
          /\ Interface_get_mac(g_Topology, i) = "E3"
          /\ InSeq(i, g_Topology.ifaces[main_BackhaulInterface(nbapi_json, g_controller_id)].children)
    /\ ~InSeq(EthernetLink("3", "E3"), nbapi_json.items)

\* C26 (nbapi.py): an Ethernet record attaches the interfaces numbered 1 of
\* the devices other than the backhaul interface itself, whatever MAC the
\* record names
C26_NbapiAttachesInterfaceOne ==
    heartbeat_count > 0 /\ nb_exc = "" /\ EthernetMACs(nb_topology.json) # {} =>
        \A i \in 1..Len(nb_topology.ifaces) :
            InSeq(i, nb_topology.ifaces[FirstAt(nb_topology, EthernetAt(nb_topology))].children)
               <=> Interface_get_mac(nb_topology, i) \in {"M2", "E3"}

(***************************************************************************)
(* Dumps with UnassociatedSTA records under the radios R1 and R2 of the    *)
(* controller.                                                             *)
(***************************************************************************)
UnassociatedSTARecord(d, r, k, mac, rssi) ==
    Entry(RadioPath(d, r) \o <<"UnassociatedSTA", k>>,
          [NoParams EXCEPT !.keys = {"MACAddress", "SignalStrength"},
                           !.MACAddress = mac, !.SignalStrength = rssi])

UnassociatedLists ==
    {<<>>,
     <<UnassociatedSTARecord("1", "1", "1", "S1", -60)>>,
     <<UnassociatedSTARecord("1", "2", "1", "S1", -70)>>,
     <<UnassociatedSTARecord("1", "1", "1", "S1", -60),
       UnassociatedSTARecord("1", "2", "1", "S1", -70)>>,
     <<UnassociatedSTARecord("1", "1", "1", "S1", -60),
       UnassociatedSTARecord("1", "1", "2", "S2", -70)>>,
     <<S1onR1(-40), UnassociatedSTARecord("1", "2", "1", "S1", -70)>>,
     <<UnassociatedSTARecord("1", "2", "1", "S2", -70), S1onR1(-40)>>,
     <<UnassociatedSTARecord("2", "1", "1", "S1", -60)>>}

UnassociatedBlobs == {JsonList(Infra \o l) : l \in UnassociatedLists}

MainUnassociatedNext == \E blob \in UnassociatedBlobs : main_Cycle(blob)
NbapiUnassociatedNext == \E blob \in UnassociatedBlobs : nbapi_Cycle(blob)

SpecMainUnassociated == Init /\ [][MainUnassociatedNext]_vars
SpecNbapiUnassociated == Init /\ [][NbapiUnassociatedNext]_vars

\* Radio.get_unassociated_stations
Radio_get_unassociated_stations(t, r) == t.radios[r].unassociated_stations

\* Radio.get_unassociated_station_by_mac; 0 is None
Radio_get_unassociated_station_by_mac(t, r, mac) ==
    LET l == Radio_get_unassociated_stations(t, r)
        hit == {k \in 1..Len(l) : UnassociatedStation_get_mac(t, l[k]) = mac}
    IN  IF hit = {} THEN 0 ELSE l[CHOOSE k \in hit : \A j \in hit : k <= j]

(***************************************************************************)
(* C27.  Unassociated stations.                                            *)
(***************************************************************************)
\* the pairs <<record, radio>> of an UnassociatedSTA record and a radio
\* whose path is a prefix of the record's
HeardBy(t) ==
    {<<k, r>> \in (1..Len(t.json)) \X (1..Len(t.radios)) :
        /\ MatchesIndexed(t.json[k].path, "UnassociatedSTA")
        /\ startswith(t.json[k].path, t.radios[r].path)}

\* every such record is in the radio's unassociated-station list, by the
\* list and by its MAC, with the radio as parent radio
UnassociatedListed(t) ==
    \A p \in HeardBy(t) :
        /\ \E k \in 1..Len(Radio_get_unassociated_stations(t, p[2])) :
              LET u == Radio_get_unassociated_stations(t, p[2])[k]
              IN  t.unassoc[u].rec = p[1] /\ t.unassoc[u].parent_radio = p[2]
        /\ Radio_get_unassociated_station_by_mac(t, p[2],
               t.json[p[1]].parameters.MACAddress) # 0

\* C27: after nbapi.py resolved a dump, every UnassociatedSTA record under a
\* radio's path is in that radio's unassociated-station list with the radio
\* as its parent radio
C27_UnassociatedListed ==
    heartbeat_count > 0 /\ nb_exc = "" => UnassociatedListed(nb_topology)

\* C27 (main.py): the same after main.py resolved the dump
C27_MainUnassociatedListed ==
    main_fetched # <<>> /\ main_exc = "" => UnassociatedListed(g_Topology)

\* C27: for every such record an UnassociatedStation object was made and
\* given the radio as parent radio
C27_ParentRadioSet ==
    /\ heartbeat_count > 0 /\ nb_exc = "" =>
          \A p \in HeardBy(nb_topology) : \E u \in 1..Len(nb_topology.unassoc) :
              nb_topology.unassoc[u].rec = p[1] /\ nb_topology.unassoc[u].parent_radio = p[2]
    /\ main_fetched # <<>> /\ main_exc = "" =>
          \A p \in HeardBy(g_Topology) : \E u \in 1..Len(g_Topology.unassoc) :
              g_Topology.unassoc[u].rec = p[1] /\ g_Topology.unassoc[u].parent_radio = p[2]

\* C27: no radio of a resolved Topology has an unassociated station
C27_RadioListsStayEmpty ==
    /\ heartbeat_count > 0 /\ nb_exc = "" =>
          \A r \in 1..Len(nb_topology.radios) :
              Radio_get_unassociated_stations(nb_topology, r) = <<>>
    /\ main_fetched # <<>> /\ main_exc = "" =>
          \A r \in 1..Len(g_Topology.radios) :
              Radio_get_unassociated_stations(g_Topology, r) = <<>>

(***************************************************************************)
(* C28.  The classification Interface.__init__ gives an interface.         *)
(***************************************************************************)
\* the media type an interface was constructed with
MediaTypeOf(g, i) == g.json[g.ifaces[i].rec].parameters.MediaType

\* the media type codes of 802.11: 0x100 .. 0x108
Is80211Code(mt) == ~mt.isStr /\ mt.code \in 256..264

\* C28: an interface constructed with media type code c has the wireless
\* flag set if and only if c is in 0x100..0x108, and the wired flag set if
\* and only if the wireless flag is not
C28_WirelessIff80211Code ==
    call.op = "Interface" =>
        \A i \in {ParentIface, ChildIface} :
            ~MediaTypeOf(call.before, i).isStr =>
                /\ IsWireless(call.before, i) <=> Is80211Code(MediaTypeOf(call.before, i))
                /\ Classification(call.before, i).wired = 1 <=> ~IsWireless(call.before, i)

\* C28: a constructed interface has exactly one of the two flags set
C28_WiredIffNotWireless ==
    call.op = "Interface" =>
        \A i \in {ParentIface, ChildIface} :
            Classification(call.before, i) \in
                {[wired |-> 1, wireless |-> 0], [wired |-> 0, wireless |-> 1]}

\* C28: a constructed interface is wireless exactly if its media type is
\* one of the two names of line 419; with every integer code it is wired
C28_WirelessIffName ==
    call.op = "Interface" =>
        \A i \in {ParentIface, ChildIface} :
            /\ IsWireless(call.before, i)
                  <=> /\ MediaTypeOf(call.before, i).isStr
                      /\ MediaTypeOf(call.before, i).name \in
                             {"IEEE_802_11N_2_4_GHZ", "IEEE_802_11AX"}
            /\ ~MediaTypeOf(call.before, i).isStr
                  => Classification(call.before, i) = [wired |-> 1, wireless |-> 0]

(***************************************************************************)
(* The threads of nbapi.py under a fair scheduler: a thread that can take  *)
(* its next step (clear, test the flag, get an answer to its request)      *)
(* takes it.  Nothing forces a task to be started or told to quit.         *)
(***************************************************************************)
\* nbapi.py:235-256: the next step of thread t of NBAPITask.run
NBAPITask_run(t) ==
    /\ t <= Len(threads)
    /\ \/ NBAPITask_clear(t)
       \/ NBAPITask_while(t)
       \/ NBAPITask_get_failed(t)
       \/ \E blob \in TaskBlobs : NBAPITask_get_ok(t, blob)

SpecNbapiTaskFair ==
    SpecNbapiTask /\ \A t \in 1..MaxTasks : WF_vars(NBAPITask_run(t))

(***************************************************************************)
(* C29.  Cooperative stop.                                                 *)
(***************************************************************************)
\* thread t waits for the answer to a request the controller does not give
FetchHangs(t) == threads[t].pc = "get" /\ TotalRequests >= MaxFetches

\* thread t has left its run loop, or waits for an answer that does not come
StoppedOrHangs(t) ==
    t <= Len(threads) /\ (threads[t].pc = "done" \/ FetchHangs(t))

\* thread t was told to quit
ToldToQuit(t) == t <= Len(threads) /\ threads[t].quitting

\* a thread told to quit stays told, starts no cycle at the test of the flag
\* but leaves the loop there, and everything else it does ends at that test
\* or ends the thread
FinishesCycle(t) ==
    /\ threads'[t].quitting
    /\ threads[t].pc = "while" => threads'[t].pc \in {"while", "done"}
    /\ threads'[t].pc = "get" => threads[t].pc = "get"
    /\ threads'[t].requests > threads[t].requests => threads[t].pc = "get"
    /\ threads[t].pc = "done" => threads'[t].pc = "done"

\* C29: once quit() was called on a thread of nbapi.py, the thread starts no
\* further cycle: it sends no request and publishes no topology other than
\* those of the cycle it is in, and when every fetch returns it leaves its
\* run loop
C29_CooperativeStop ==
    /\ [][\A t \in 1..MaxTasks : ToldToQuit(t) => FinishesCycle(t)]_vars
    /\ \A t \in 1..MaxTasks :
          ToldToQuit(t) ~> StoppedOrHangs(t)

\* a thread that was told to quit inside a cycle has left the loop after a
\* request that was answered
C29_Witness ==
    \E t \in 1..Len(threads) :
        /\ threads[t].quitting /\ threads[t].pc = "done"
        /\ threads[t].requests > 0 /\ heartbeat_count > 0

\* main.py:816-831: the steps thread t is away from leaving run once it was
\* told to quit: the test of the flag, the assignment, the passes of the
\* resolver left, the request
RunRank(t) ==
    CASE threads[t].pc = "done" -> 0
      [] threads[t].pc = "while" -> 1
      [] threads[t].pc = "assign" -> 2
      [] threads[t].pc = "resolve" -> 2 + LastPass - threads[t].pass
      [] threads[t].pc = "get" -> 3 + LastPass

\* C29 (main.py): a thread connect_to_controller has told to quit starts no
\* further cycle, and every step it takes brings it nearer to leaving run
C29_MainCooperativeStop ==
    [][\A t \in 1..MaxTasks :
          ToldToQuit(t) =>
              /\ FinishesCycle(t)
              /\ threads'[t] # threads[t] => RunRank(t)' < RunRank(t)]_vars

\* C29: the test of the flag is the only place where a thread told to quit
\* leaves the loop without an error: it does not stop in the middle of a cycle
C29_StopsOnlyAtFlagTest ==
    [][\A t \in 1..MaxTasks :
          (/\ ToldToQuit(t) /\ threads[t].pc \notin {"while", "done"}
           /\ threads'[t].pc = "done")
             => threads'[t].failed \/ nb_exc' # "" \/ main_exc' # ""]_vars

(***************************************************************************)
(* C30.  Stations that stay on their radio.                                *)
(***************************************************************************)
\* the STA records of a dump that report sta_mac
STARecordsOf(blob, sta_mac) ==
    {k \in RecordsOf(blob, "STA") : blob.items[k].parameters.MACAddress = sta_mac}

\* the RUIDs of the Radio records under whose path record k of the dump sits
RUIDsOver(blob, k) ==
    {blob.items[j].parameters.ID :
        j \in {i \in RecordsOf(blob, "Radio") :
                  startswith(blob.items[k].path, blob.items[i].path)}}

\* the dump reports sta_mac by exactly one STA record, under radio ruid
ReportedOnceUnder(blob, sta_mac, ruid) ==
    /\ blob.type = "list"
    /\ Cardinality(STARecordsOf(blob, sta_mac)) = 1
    /\ \A k \in STARecordsOf(blob, sta_mac) : RUIDsOver(blob, k) = {ruid}

\* the history after a cycle that follows no cycle or a cycle of the same
\* report: the moved list has not gained the MAC, the map holds the radio
StaysOnRadio(first, before, after, sta_mac, ruid, moved, movedAfter, s2rAfter) ==
    (/\ ReportedOnceUnder(after, sta_mac, ruid)
     /\ first \/ ReportedOnceUnder(before, sta_mac, ruid))
        => /\ Count(sta_mac, movedAfter) <= Count(sta_mac, moved)
           /\ sta_mac \in DOMAIN s2rAfter
           /\ s2rAfter[sta_mac] = ruid

C30_MainNoSpuriousMove ==
    [][MainCycleStep =>
          \A sta_mac \in MACs, ruid \in RUIDs :
              StaysOnRadio(main_fetched = <<>>, nbapi_json, nbapi_json', sta_mac, ruid,
                           stations_have_moved, stations_have_moved',
                           g_StationsToRadio')]_vars

====
